---- MODULE Spec2Model ----
(***************************************************************************)
(* Model of the OCSF server core: the schema repository                    *)
(* (src/src/ocsf/schema.rs), the event builder                             *)
(* (src/src/tools/event_generator.rs, src/src/ocsf/event.rs) and the       *)
(* event validator (src/src/ocsf/validation.rs).                           *)
(*                                                                         *)
(* Every request handler is one action.  The handlers keep no state        *)
(* between calls, so the state is the schema store (the directory          *)
(* data/ocsf-schema), the wall clock, and the request being served with    *)
(* its response; Deliver hands the response to the transport and the       *)
(* server is idle again, ready for the next request.                       *)
(***************************************************************************)
EXTENDS Integers, Sequences, FiniteSets, TLC

VARIABLES store, schema_dir, now, op, req, res

vars == <<store, schema_dir, now, op, req, res>>

(***************************************************************************)
(* Bounds of the model.                                                    *)
(***************************************************************************)
\* the wall clock (chrono::Utc::now) takes the values 0..MaxNow
MaxNow == 1
\* Uuid::new_v4 draws from 1..MaxUuid
MaxUuid == 1

(***************************************************************************)
(* u32 arithmetic.  A u32 is written <<hi, lo>> with two 16-bit limbs, so  *)
(* that every one of the 2^32 values can be written and a product that     *)
(* leaves 32 bits can be told from one that stays inside.                  *)
(***************************************************************************)
Limb == 256 * 256

U(i) == <<i \div Limb, i % Limb>>

U32Max == <<Limb - 1, Limb - 1>>

\* u / 1000 on u32 (never overflows); long division limb by limb
Div1000(u) ==
    LET rest == (u[1] % 1000) * Limb + u[2]
    IN  U((u[1] \div 1000) * Limb + rest \div 1000)

\* u * 100 + 1 on u32: the 32 bits the product leaves behind, and whether bits
\* were lost (a debug build panics on the overflow, a release build wraps)
Mul100Add1(u) ==
    LET lo == u[2] * 100 + 1
        hi == u[1] * 100 + lo \div Limb
    IN  [overflow |-> hi >= Limb, value |-> <<hi % Limb, lo % Limb>>]

(***************************************************************************)
(* JSON values (serde_json::Value).  Every value is a record of the same   *)
(* shape: t is the variant, n the number (u32 limbs), s the string, o the members of   *)
(* an object in document order (a JSON text may repeat a key).             *)
(***************************************************************************)
Null == [t |-> "null", n |-> U(0), s |-> "", o |-> <<>>]

\* a number, given as u32 limbs
Num(u) == [t |-> "num", n |-> u, s |-> "", o |-> <<>>]

Str(s) == [t |-> "str", n |-> U(0), s |-> s, o |-> <<>>]

\* chrono::Utc::now().to_rfc3339() read at clock value c: a JSON string
Rfc3339(c) == [t |-> "str", n |-> U(c), s |-> "rfc3339", o |-> <<>>]

Arr == [t |-> "arr", n |-> U(0), s |-> "", o |-> <<>>]

\* true / false
Bool(b) == [t |-> "bool", n |-> U(IF b THEN 1 ELSE 0), s |-> "", o |-> <<>>]

Member(k, v) == [k |-> k, v |-> v]

Obj(members) == [t |-> "obj", n |-> U(0), s |-> "", o |-> members]

\* Option<T>
None == [some |-> FALSE, v |-> Null]

Some(v) == [some |-> TRUE, v |-> v]

\* the index of the last member of a member sequence that carries key k, 0 if none
RECURSIVE LastIndex(_, _)
LastIndex(members, k) ==
    IF members = <<>> THEN 0
    ELSE IF members[Len(members)].k = k THEN Len(members)
    ELSE LastIndex(SubSeq(members, 1, Len(members) - 1), k)

\* Value::get(key): serde_json keeps the last occurrence of a repeated key when it
\* parses an object, and answers None on anything that is not an object
Get(value, k) ==
    IF value.t = "obj" /\ LastIndex(value.o, k) > 0
    THEN Some(value.o[LastIndex(value.o, k)].v)
    ELSE None

(***************************************************************************)
(* The schema store: version identifier -> stored document.                *)
(* A document is the text of data/ocsf-schema/<version>.json, described by *)
(* what serde_json::from_str::<OcsfSchema> reads of it.                    *)
(***************************************************************************)
Attr(requirement) == [requirement |-> requirement]

Class(uid, name, category, attributes) ==
    [uid |-> uid, name |-> name, category |-> category, attributes |-> attributes]

NoAttributes == [a \in {} |-> Attr("none")]

\* a schema document that parses: three classes, one of them with the largest uid
GoodClasses ==
    [c \in {"authentication", "base_event", "custom_class"} |->
        CASE c = "authentication" ->
               Class(U(3002), "authentication", "iam",
                     [a \in {"user", "status", "note", "raw"} |->
                         CASE a = "user" -> Attr("required")
                           [] a = "status" -> Attr("recommended")
                           [] a = "note" -> Attr("optional")
                           [] OTHER -> Attr("none")])
          [] c = "base_event" -> Class(U(0), "base_event", "other", NoAttributes)
          [] OTHER -> Class(U32Max, "custom_class", "custom", NoAttributes)]

NoClasses == [c \in {} |-> Class(U(0), "", "", NoAttributes)]

\* json: the text is syntactically JSON; hasVersion: it has the member `version`
\* that the OcsfSchema struct requires (the other members have serde defaults)
Doc(json, hasVersion, version, classes) ==
    [json |-> json, hasVersion |-> hasVersion, version |-> version, classes |-> classes]

GoodDoc == Doc(TRUE, TRUE, "1.0.0", GoodClasses)

MalformedDoc == Doc(FALSE, FALSE, "", NoClasses)

AliasedDoc ==
    \* a schema document whose class keys are not the names the classes carry: the
    \* key "login" for the class named authentication, the key "base" for the class
    \* named base_event, and a second class of category iam
    LET AliasedClasses ==
            [c \in {"login", "base", "account_change", "process_activity"} |->
                CASE c = "login" -> Class(U(3002), "authentication", "iam", NoAttributes)
                  [] c = "base" -> Class(U(0), "base_event", "other", NoAttributes)
                  [] c = "account_change" -> Class(U(3001), "account_change", "iam", NoAttributes)
                  [] OTHER -> Class(U(1007), "process_activity", "system", NoAttributes)]
    IN
        Doc(TRUE, TRUE, "1.0.0", AliasedClasses)

\* the identifiers a document may be stored under, and those a request may name
StoredIds == {"1.0.0", "1.7.0-dev"}

VersionIds == StoredIds \cup {"99.99.99"}

\* the stores: any subset of StoredIds, each identifier with any document
Stores ==
    LET NoVersionDoc ==
            Doc(TRUE, FALSE, "", GoodClasses)
        Docs ==
            {GoodDoc, MalformedDoc, NoVersionDoc}
    IN
        UNION {[ids -> Docs] : ids \in SUBSET StoredIds}

(***************************************************************************)
(* OcsfSchema::minimal_schema and OcsfSchema::load_version                 *)
(***************************************************************************)
Schema(version, classes) == [version |-> version, classes |-> classes]

\* the built-in schema with the class of the stored documents' sentinel added
minimal_schema_with_base_event ==
    Schema("1.7.0-dev",
        [c \in {"authentication", "process_activity", "file_activity", "network_activity",
                "base_event"} |->
            CASE c = "authentication" -> Class(U(3002), c, "iam", NoAttributes)
              [] c = "process_activity" -> Class(U(1007), c, "system", NoAttributes)
              [] c = "file_activity" -> Class(U(1001), c, "system", NoAttributes)
              [] c = "network_activity" -> Class(U(4001), c, "network", NoAttributes)
              [] OTHER -> Class(U(0), c, "other", NoAttributes)])

minimal_schema ==
    Schema("1.7.0-dev",
        [c \in {"authentication", "process_activity", "file_activity", "network_activity"} |->
            CASE c = "authentication" -> Class(U(3002), c, "iam", NoAttributes)
              [] c = "process_activity" -> Class(U(1007), c, "system", NoAttributes)
              [] c = "file_activity" -> Class(U(1001), c, "system", NoAttributes)
              [] OTHER -> Class(U(4001), c, "network", NoAttributes)])

Ok(v) == [ok |-> TRUE, err |-> "", v |-> v]

Err(e) == [ok |-> FALSE, err |-> e, v |-> Null]

\* the parse with a built-in schema standing in for a document it cannot read
parse_schema_lenient(doc) ==
    IF doc.json /\ doc.hasVersion
    THEN Ok(Schema(doc.version, doc.classes))
    ELSE Ok(minimal_schema)

\* serde_json::from_str::<OcsfSchema>(&content)
parse_schema(doc) ==
    IF doc.json /\ doc.hasVersion
    THEN Ok(Schema(doc.version, doc.classes))
    ELSE Err("SchemaParseError")

\* load_version with the `else` branch lost: an absent version is an error
load_version_no_fallback(st, version) ==
    IF version \in DOMAIN st
    THEN parse_schema(st[version])
    ELSE Err("SchemaNotFound")

load_version(st, version) ==
    IF version \in DOMAIN st
    THEN parse_schema(st[version])
    ELSE Ok(minimal_schema)

(***************************************************************************)
(* The event (src/src/ocsf/event.rs).                                      *)
(***************************************************************************)
EmptyMap == [k \in {} |-> Null]

Put(f, k, v) == [x \in DOMAIN f \cup {k} |-> IF x = k THEN v ELSE f[x]]

\* OcsfEvent::new(event_class, class_uid, category_uid)
OcsfEvent_new(event_class, class_uid, category_uid, uuid) ==
    [metadata |-> [version |-> "1.7.0-dev",
                   uid |-> uuid,
                   event_class |-> event_class,
                   category_uid |-> category_uid,
                   class_uid |-> class_uid],
     fields |-> EmptyMap]

\* OcsfEvent::set_field: Map::insert replaces the value of a key already there
set_field(event, key, value) ==
    [event EXCEPT !.fields = Put(@, key, value)]

\* `for (key, value) in map { event.set_field(key, value) }`: the keys of a HashMap
\* are distinct, so the order of the iteration does not show in the result
RECURSIVE set_fields(_, _)
set_fields(event, map) ==
    IF DOMAIN map = {} THEN event
    ELSE LET k == CHOOSE x \in DOMAIN map : TRUE
         IN  set_fields(set_field(event, k, map[k]),
                        [x \in DOMAIN map \ {k} |-> map[x]])

\* every key a field map of the model can hold, in the order of Map's BTreeMap
KeyOrder ==
    <<"activity_id", "category_uid", "class_uid", "custom", "message", "metadata",
      "severity_id", "time", "type_uid", "user">>

\* EventMetadata as serde writes it (product is None and is written null)
MetadataValue(m) ==
    \* Uuid::new_v4().to_string(): a JSON string
    LET UuidStr(u) ==
            [t |-> "str", n |-> U(u), s |-> "uuid", o |-> <<>>]
    IN
        Obj(<<Member("version", Str(m.version)),
              Member("product", Null),
              Member("uid", UuidStr(m.uid)),
              Member("event_class", Str(m.event_class)),
              Member("category_uid", Num(m.category_uid)),
              Member("class_uid", Num(m.class_uid))>>)

RECURSIVE FieldMembers(_, _)
FieldMembers(fields, i) ==
    IF i > Len(KeyOrder) THEN <<>>
    ELSE (IF KeyOrder[i] \in DOMAIN fields
          THEN <<Member(KeyOrder[i], fields[KeyOrder[i]])>>
          ELSE <<>>) \o FieldMembers(fields, i + 1)

\* a JSON text: valid says whether serde_json::from_str::<Value> reads it, value is
\* what it reads
Text(value) == [valid |-> TRUE, value |-> value]

InvalidText == [valid |-> FALSE, value |-> Null]

\* OcsfEvent::to_json: the derived Serialize writes the member `metadata` and then,
\* for #[serde(flatten)], every entry of `fields`, whatever its key
to_json(event) ==
    Text(Obj(<<Member("metadata", MetadataValue(event.metadata))>>
             \o FieldMembers(event.fields, 1)))

(***************************************************************************)
(* The field sources of GenerateEvent                                      *)
(* (src/src/tools/event_generator.rs).  A source is a text: brace says     *)
(* whether text.trim().starts_with('{'); for a brace text, valid says      *)
(* whether serde_json reads it as an object and members are its members in *)
(* document order; for any other text, pieces are the results of           *)
(* split(',') after trim().                                                *)
(***************************************************************************)
JsonSource(members) ==
    [brace |-> TRUE, valid |-> TRUE, members |-> members, pieces |-> <<>>]

BadJsonSource == [brace |-> TRUE, valid |-> FALSE, members |-> <<>>, pieces |-> <<>>]

ListSource(pieces) ==
    [brace |-> FALSE, valid |-> FALSE, members |-> <<>>, pieces |-> pieces]

\* serde_json::from_str::<HashMap<String, Value>>: a repeated key keeps its last value
parse_json_fields(members) ==
    [k \in {members[i].k : i \in DOMAIN members} |-> members[LastIndex(members, k)].v]

UserExample ==
    Obj(<<Member("name", Str("example_user")), Member("uid", Str("1001"))>>)

\* the defaults of the optional source used for the required source as well
required_default_as_optional(field_name, ec, t) ==
    CASE field_name = "message" -> Str("Generated OCSF event")
      [] field_name = "user" -> UserExample
      [] OTHER -> Str("default_" \o field_name)

\* event_generator.rs:48-56, the `match field_name` of the required source
required_default(field_name, ec, t) ==
    CASE field_name = "activity_id" -> Num(U(1))
      [] field_name = "category_uid" -> Num(Div1000(ec.uid))
      [] field_name = "class_uid" -> Num(ec.uid)
      [] field_name = "severity_id" -> Num(U(1))
      [] field_name = "type_uid" -> Num(Mul100Add1(ec.uid).value)
      [] field_name = "time" -> Rfc3339(t)
      [] OTHER -> Str("default_" \o field_name)

\* event_generator.rs:74-78, the `match field_name` of the optional source
optional_default(field_name) ==
    CASE field_name = "message" -> Str("Generated OCSF event")
      [] field_name = "user" -> UserExample
      [] OTHER -> Str("default_" \o field_name)

\* the names of a comma-separated source: the empty pieces are skipped
Names(pieces) == {pieces[i] : i \in DOMAIN pieces} \ {""}

\* event_generator.rs:44-60
required_list_fields(pieces, ec, t) ==
    [k \in Names(pieces) |-> required_default(k, ec, t)]

\* event_generator.rs:70-82
optional_list_fields(pieces) ==
    [k \in Names(pieces) |-> optional_default(k)]

\* `ec.uid * 100 + 1` is evaluated, and leaves u32, for a bare type_uid
required_overflows(source, ec) ==
    /\ ~source.brace
    /\ "type_uid" \in Names(source.pieces)
    /\ Mul100Add1(ec.uid).overflow

\* the merge with the two loops exchanged: the required source is written last
merge_required_last(event, req_fields, opt_fields) ==
    set_fields(set_fields(event, opt_fields), req_fields)

\* event_generator.rs:93-98
merge(event, req_fields, opt_fields) ==
    set_fields(set_fields(event, req_fields), opt_fields)

\* the injection left out
inject_time_never(event, t) == event

\* event_generator.rs:100-105
inject_time(event, t) ==
    IF "time" \notin DOMAIN event.fields
    THEN set_field(event, "time", Rfc3339(t))
    ELSE event

\* the category taken from the low digits of the class uid
category_uid_low_digits(ec) == U(ec.uid[2] % 1000)

\* event_generator.rs:89
category_uid_of(ec) == Div1000(ec.uid)

NoEvent == [metadata |-> Null, fields |-> EmptyMap]

GenOk(event) == [ok |-> TRUE, err |-> "", event |-> event, json |-> to_json(event)]

GenErr(e) == [ok |-> FALSE, err |-> e, event |-> NoEvent, json |-> InvalidText]

\* build_event with a category_uid number of the required source passed to
\* OcsfEvent::new in place of the derived one
build_event_caller_category(r, ec, req_fields, opt_fields, t, uuid) ==
    GenOk(inject_time(
            merge(OcsfEvent_new(r.event_class, ec.uid,
                                IF "category_uid" \in DOMAIN req_fields
                                   /\ req_fields["category_uid"].t = "num"
                                THEN req_fields["category_uid"].n
                                ELSE category_uid_of(ec),
                                uuid),
                  req_fields, opt_fields),
            t))

\* build_event with the version the request names written into the metadata
build_event_requested_version(r, ec, req_fields, opt_fields, t, uuid) ==
    GenOk(inject_time(
            merge([OcsfEvent_new(r.event_class, ec.uid, category_uid_of(ec), uuid)
                       EXCEPT !.metadata.version =
                           IF r.version.some THEN r.version.v ELSE "1.7.0-dev"],
                  req_fields, opt_fields),
            t))

\* event_generator.rs:88-107, once the class and both field maps are there
build_event(r, ec, req_fields, opt_fields, t, uuid) ==
    GenOk(inject_time(
            merge(OcsfEvent_new(r.event_class, ec.uid, category_uid_of(ec), uuid),
                  req_fields, opt_fields),
            t))

\* event_generator.rs:37-107 for a resolved class ec.  wraps: the build wraps an
\* integer overflow (release profile) instead of panicking (debug profile)
generate_with_class(r, ec, t, uuid, wraps) ==
    IF r.required_fields.brace /\ ~r.required_fields.valid
    THEN GenErr("InvalidFieldSource")
    ELSE IF required_overflows(r.required_fields, ec) /\ ~wraps
    THEN GenErr("panic")
    ELSE IF r.optional_fields.some /\ r.optional_fields.v.brace
                                   /\ ~r.optional_fields.v.valid
    THEN GenErr("InvalidFieldSource")
    ELSE build_event(r, ec,
            IF r.required_fields.brace
            THEN parse_json_fields(r.required_fields.members)
            ELSE required_list_fields(r.required_fields.pieces, ec, t),
            IF ~r.optional_fields.some THEN EmptyMap
            ELSE IF r.optional_fields.v.brace
            THEN parse_json_fields(r.optional_fields.v.members)
            ELSE optional_list_fields(r.optional_fields.v.pieces),
            t, uuid)

requested_version(r) == IF r.version.some THEN r.version.v ELSE "1.7.0-dev"

\* generate_ocsf_event with the field sources parsed before the class is looked up
generate_parse_first(st, r, t, uuid, wraps) ==
    LET loaded == load_version(st, requested_version(r))
    IN  IF ~loaded.ok THEN GenErr("SchemaLoadError")
        ELSE IF \/ r.required_fields.brace /\ ~r.required_fields.valid
                \/ r.optional_fields.some /\ r.optional_fields.v.brace
                                          /\ ~r.optional_fields.v.valid
        THEN GenErr("InvalidFieldSource")
        ELSE IF r.event_class \notin DOMAIN loaded.v.classes
        THEN GenErr("EventClassNotFound")
        ELSE generate_with_class(r, loaded.v.classes[r.event_class], t, uuid, wraps)

\* generate_ocsf_event (event_generator.rs:18-108)
generate_ocsf_event(st, r, t, uuid, wraps) ==
    LET loaded == load_version(st, requested_version(r))
    IN  IF ~loaded.ok THEN GenErr("SchemaLoadError")
        ELSE IF r.event_class \notin DOMAIN loaded.v.classes
        THEN GenErr("EventClassNotFound")
        ELSE generate_with_class(r, loaded.v.classes[r.event_class], t, uuid, wraps)

Sources ==
    \* the inputs of GenerateEvent
    LET PieceNames ==
            {"", "activity_id", "category_uid", "class_uid", "severity_id", "type_uid",
             "time", "message", "user", "custom"}
        ListSources ==
            {ListSource(<<n>>) : n \in PieceNames}
            \cup {ListSource(<<"", "time">>), ListSource(<<"time", "time">>),
                  ListSource(<<"category_uid", "type_uid">>)}
        JsonSources ==
            {JsonSource(<<>>),
             JsonSource(<<Member("category_uid", Num(U(99)))>>),
             JsonSource(<<Member("time", Str("t0"))>>),
             JsonSource(<<Member("time", Null)>>),
             JsonSource(<<Member("user", Obj(<<Member("name", Str("alice"))>>))>>),
             JsonSource(<<Member("custom", Str("a")), Member("custom", Str("b"))>>),
             JsonSource(<<Member("class_uid", Num(U(1))), Member("message", Str("hi"))>>),
             JsonSource(<<Member("metadata", Obj(<<Member("category_uid", Num(U(99)))>>))>>),
             BadJsonSource}
    IN
        ListSources \cup JsonSources

SomeS(x) == [some |-> TRUE, v |-> x]

NoneS == [some |-> FALSE, v |-> ""]

NoSource == [some |-> FALSE, v |-> ListSource(<<>>)]

SomeSource(x) == [some |-> TRUE, v |-> x]

ClassNames == {"authentication", "custom_class", "does_not_exist"}

GenerateRequests ==
    [version : {NoneS, SomeS("1.0.0")},
     event_class : ClassNames,
     required_fields : Sources,
     optional_fields : {NoSource} \cup {SomeSource(x) : x \in Sources}]

(***************************************************************************)
(* The validator (src/src/ocsf/validation.rs).                             *)
(***************************************************************************)
\* ValidationReport::new(is_valid, event_class)
ValidationReport_new(is_valid, event_class) ==
    [is_valid |-> is_valid,
     errors |-> <<>>,
     warnings |-> <<>>,
     event_class |-> event_class,
     summary |-> IF is_valid THEN "Event is valid OCSF" ELSE "Event has validation errors"]

ValidationError(field, error_type) == [field |-> field, error_type |-> error_type]

\* add_error without the assignment to is_valid
add_error_keeps_valid(report, field, error_type) ==
    [report EXCEPT !.errors = Append(@, ValidationError(field, error_type))]

\* ValidationReport::add_error
add_error(report, field, error_type) ==
    [report EXCEPT !.errors = Append(@, ValidationError(field, error_type)),
                   !.is_valid = FALSE]

\* check_metadata with the version looked at only when event_class is a string
check_metadata_version_nested(report, metadata) ==
    LET event_class == Get(metadata, "event_class")
    IN  IF event_class.some /\ event_class.v.t = "str"
        THEN IF ~Get(metadata, "version").some
             THEN add_error([report EXCEPT !.event_class = SomeS(event_class.v.s)],
                            "metadata.version", "MissingRequired")
             ELSE [report EXCEPT !.event_class = SomeS(event_class.v.s)]
        ELSE add_error(report, "metadata.event_class", "MissingRequired")

\* validation.rs:74-92, the branch taken when event.get("metadata") is Some
check_metadata(report, metadata) ==
    LET event_class == Get(metadata, "event_class")
        r1 == IF event_class.some /\ event_class.v.t = "str"
              THEN [report EXCEPT !.event_class = SomeS(event_class.v.s)]
              ELSE add_error(report, "metadata.event_class", "MissingRequired")
    IN  IF ~Get(metadata, "version").some
        THEN add_error(r1, "metadata.version", "MissingRequired")
        ELSE r1

\* the summary of validation.rs:111-121, as the parts it is formatted from
summary_of(report) ==
    IF report.is_valid
    THEN <<"Valid OCSF event of class",
           IF report.event_class.some THEN report.event_class.v ELSE "unknown">>
    ELSE <<"Validation failed with", Len(report.errors), "error(s)">>

\* validate_event with the check of `time` made before the check of `metadata`
validate_event_time_first(event_json) ==
    IF ~event_json.valid THEN Err("JsonParseError")
    ELSE LET event == event_json.value
             r0 == ValidationReport_new(TRUE, NoneS)
             metadata == Get(event, "metadata")
             r1 == IF ~Get(event, "time").some
                   THEN add_error(r0, "time", "MissingRequired")
                   ELSE r0
             r2 == IF metadata.some
                   THEN check_metadata(r1, metadata.v)
                   ELSE add_error(r1, "metadata", "MissingRequired")
         IN  Ok([r2 EXCEPT !.summary = summary_of(r2)])

\* validate_event with an invalid document turned into an error of the operation
validate_event_rejects_invalid(event_json) ==
    IF ~event_json.valid THEN Err("JsonParseError")
    ELSE LET event == event_json.value
             r0 == ValidationReport_new(TRUE, NoneS)
             metadata == Get(event, "metadata")
             r1 == IF metadata.some
                   THEN check_metadata(r0, metadata.v)
                   ELSE add_error(r0, "metadata", "MissingRequired")
             r2 == IF ~Get(event, "time").some
                   THEN add_error(r1, "time", "MissingRequired")
                   ELSE r1
         IN  IF r2.is_valid
             THEN Ok([r2 EXCEPT !.summary = summary_of(r2)])
             ELSE Err("InvalidEvent")

\* validate_event (validation.rs:68-124)
validate_event(event_json) ==
    IF ~event_json.valid THEN Err("JsonParseError")
    ELSE LET event == event_json.value
             r0 == ValidationReport_new(TRUE, NoneS)
             metadata == Get(event, "metadata")
             r1 == IF metadata.some
                   THEN check_metadata(r0, metadata.v)
                   ELSE add_error(r0, "metadata", "MissingRequired")
             r2 == IF ~Get(event, "time").some
                   THEN add_error(r1, "time", "MissingRequired")
                   ELSE r1
         IN  Ok([r2 EXCEPT !.summary = summary_of(r2)])

\* the inputs of ValidateEvent
\* a marker for "the member is not written"; it never appears in a text
Absent == [t |-> "absent", n |-> U(0), s |-> "", o |-> <<>>]

OptMember(k, v) == IF v.t = "absent" THEN <<>> ELSE <<Member(k, v)>>

FullMetadata == Obj(<<Member("event_class", Str("x")), Member("version", Str("1"))>>)

ValidateTexts ==
    LET MetadataObjects ==
            {Obj(OptMember("event_class", c) \o OptMember("version", v)) :
                c \in {Absent, Str("x"), Num(U(1)), Null},
                v \in {Absent, Str("1"), Null}}
        MetadataChoices ==
            {Absent, Num(U(5)), Null, Arr, Str("m")} \cup MetadataObjects
        TimeChoices ==
            {Absent, Str("t"), Null}
    IN
        {Text(Obj(OptMember("metadata", m) \o OptMember("time", t))) :
            m \in MetadataChoices, t \in TimeChoices}
        \cup {Text(Obj(<<Member("metadata", FullMetadata), Member("metadata", Num(U(5))),
                         Member("time", Str("t"))>>)),
              Text(Obj(<<Member("metadata", Num(U(5))), Member("metadata", FullMetadata),
                         Member("time", Str("t"))>>)),
              Text(Arr), Text(Num(U(5))), Text(Null), Text(Str("metadata")),
              InvalidText}

(***************************************************************************)
(* The requests.                                                           *)
(***************************************************************************)
(***************************************************************************)
(* MapCustomToOcsf (src/src/tools/mapper.rs).  A sample text is a sequence *)
(* of characters, so that lower-casing and substring search are computed.  *)
(***************************************************************************)
UpperCase ==
    <<"A", "B", "C", "D", "E", "F", "G", "H", "I", "J", "K", "L", "M",
      "N", "O", "P", "Q", "R", "S", "T", "U", "V", "W", "X", "Y", "Z">>

LowerCase ==
    <<"a", "b", "c", "d", "e", "f", "g", "h", "i", "j", "k", "l", "m",
      "n", "o", "p", "q", "r", "s", "t", "u", "v", "w", "x", "y", "z">>

\* char::to_lowercase on the characters of the model (ASCII)
Lower(c) ==
    IF \E i \in DOMAIN UpperCase : UpperCase[i] = c
    THEN LowerCase[CHOOSE i \in DOMAIN UpperCase : UpperCase[i] = c]
    ELSE c

\* str::to_lowercase
to_lowercase(text) == [i \in DOMAIN text |-> Lower(text[i])]

\* str::contains(pat)
contains(text, pat) ==
    \E i \in 0..(Len(text) - Len(pat)) : SubSeq(text, i + 1, i + Len(pat)) = pat

\* the words the heuristic looks for in the lowercased sample
keywords ==
    [login |-> <<"l", "o", "g", "i", "n">>,
     auth |-> <<"a", "u", "t", "h">>,
     process |-> <<"p", "r", "o", "c", "e", "s", "s">>,
     exec |-> <<"e", "x", "e", "c">>,
     network |-> <<"n", "e", "t", "w", "o", "r", "k">>,
     connection |-> <<"c", "o", "n", "n", "e", "c", "t", "i", "o", "n">>,
     file |-> <<"f", "i", "l", "e">>,
     path |-> <<"p", "a", "t", "h">>]

\* the heuristic with the rules tried from the last to the first
detect_last_rule_first(sample_log) ==
    LET lower == to_lowercase(sample_log)
    IN  IF contains(lower, keywords.file) \/ contains(lower, keywords.path)
        THEN "file_activity"
        ELSE IF contains(lower, keywords.network) \/ contains(lower, keywords.connection)
        THEN "network_activity"
        ELSE IF contains(lower, keywords.process) \/ contains(lower, keywords.exec)
        THEN "process_activity"
        ELSE IF contains(lower, keywords.login) \/ contains(lower, keywords.auth)
        THEN "authentication"
        ELSE "unknown"

\* heuristic-based detection (mapper.rs:38-57)
detect(sample_log) ==
    LET lower == to_lowercase(sample_log)
    IN  IF contains(lower, keywords.login) \/ contains(lower, keywords.auth)
        THEN "authentication"
        ELSE IF contains(lower, keywords.process) \/ contains(lower, keywords.exec)
        THEN "process_activity"
        ELSE IF contains(lower, keywords.network) \/ contains(lower, keywords.connection)
        THEN "network_activity"
        ELSE IF contains(lower, keywords.file) \/ contains(lower, keywords.path)
        THEN "file_activity"
        ELSE "unknown"

\* a JSON array of the given values
ArrOf(items) == [t |-> "arr", n |-> U(0), s |-> "", o |-> items]

\* FieldMapping as serde writes it: the three members in declaration order, a
\* transformation of None written as null
FieldMapping(source_field, ocsf_field, transformation) ==
    Obj(<<Member("source_field", Str(source_field)),
          Member("ocsf_field", Str(ocsf_field)),
          Member("transformation",
                 IF transformation.some THEN Str(transformation.v) ELSE Null)>>)

\* let mappings = vec![...] (mapper.rs:60-76)
mappings ==
    <<FieldMapping("timestamp", "time", SomeS("Convert to ISO 8601 format")),
      FieldMapping("username", "user.name", NoneS),
      FieldMapping("user_id", "user.uid", NoneS)>>

\* format!("Based on log content analysis, ... '{event_class}'. ..."): a JSON
\* string that carries the class label
Explanation(event_class) ==
    [t |-> "str", n |-> U(0), s |-> "explanation", o |-> <<event_class>>]

\* serde_json::to_string_pretty(&MappingRecommendation {...}): the members in
\* declaration order
MappingRecommendation(event_class, confidence, field_mappings) ==
    Text(Obj(<<Member("suggested_event_class", Str(event_class)),
               Member("confidence", Str(confidence)),
               Member("field_mappings", ArrOf(field_mappings)),
               Member("explanation", Explanation(event_class))>>))

MapCustomRequest(sample_log, suggested_class) ==
    [sample_log |-> sample_log, suggested_class |-> suggested_class]

\* the mapper with an empty hint taken as no hint
map_custom_to_ocsf_empty_hint_detects(request) ==
    LET event_class ==
            IF request.suggested_class.some /\ request.suggested_class.v # ""
            THEN request.suggested_class.v
            ELSE detect(request.sample_log)
    IN  Ok(MappingRecommendation(event_class, "medium", mappings))

\* the mapper with a hinted class reported at high confidence
map_custom_to_ocsf_confident_hint(request) ==
    LET event_class ==
            IF request.suggested_class.some
            THEN request.suggested_class.v
            ELSE detect(request.sample_log)
    IN  Ok(MappingRecommendation(
               event_class,
               IF request.suggested_class.some THEN "high" ELSE "medium",
               mappings))

\* map_custom_to_ocsf (mapper.rs:32-90)
map_custom_to_ocsf(request) ==
    LET event_class ==
            IF request.suggested_class.some
            THEN request.suggested_class.v
            ELSE detect(request.sample_log)
    IN  Ok(MappingRecommendation(event_class, "medium", mappings))

user_login_failed == <<"u", "s", "e", "r", " ", "l", "o", "g", "i", "n", " ", "f", "a", "i", "l", "e", "d">>

MapCustomRequests ==
    \* the sample texts: every concatenation of two of these pieces, and the text
    \* "user login failed"
    LET SamplePieces ==
            { <<>>,
              <<"l", "o", "g", "i", "n">>,
              <<"A", "U", "T", "H">>,
              <<"P", "r", "o", "c", "e", "s", "s">>,
              <<"e", "x", "e", "c">>,
              <<"n", "e", "t", "w", "o", "r", "k">>,
              <<"C", "o", "n", "n", "e", "c", "t", "i", "o", "n">>,
              <<"f", "i", "l", "e">>,
              <<"P", "A", "T", "H">>,
              <<"x", "y", "z">>,
              <<"l", "o", "g", "i">>,
              <<"N">>,
              <<" ">> }
        SampleTexts ==
            {a \o b : a, b \in SamplePieces} \cup {user_login_failed}
        Hints ==
            {NoneS, SomeS(""), SomeS("authentication"), SomeS("file_activity"),
             SomeS("no_such_class")}
    IN
        {MapCustomRequest(sample_log, hint) : sample_log \in SampleTexts, hint \in Hints}

(***************************************************************************)
(* OcsfSchema::list_versions and OcsfSchema::get_newest_stable_version     *)
(* (src/src/ocsf/schema.rs).  A document stored under the identifier id is *)
(* the file <id>.json of the directory data/ocsf-schema; file names and    *)
(* listed identifiers are sequences of characters.                         *)
(***************************************************************************)
\* the identifiers documents are stored under when versions are listed
ListedIds == {"1.0.0", "1.0.0.json", "1.10.0", "1.2.0", "1.3.0-RC1", "1.7.0-dev"}

\* the characters of an identifier
Chars(id) ==
    CASE id = "1.0.0" -> <<"1", ".", "0", ".", "0">>
      [] id = "1.0.0.json" -> <<"1", ".", "0", ".", "0", ".", "j", "s", "o", "n">>
      [] id = "1.10.0" -> <<"1", ".", "1", "0", ".", "0">>
      [] id = "1.2.0" -> <<"1", ".", "2", ".", "0">>
      [] id = "1.3.0-RC1" -> <<"1", ".", "3", ".", "0", "-", "R", "C", "1">>
      [] OTHER -> <<"1", ".", "7", ".", "0", "-", "d", "e", "v">>

\* the identifier a sequence of characters spells
Ident(text) == CHOOSE id \in ListedIds : Chars(id) = text

json_suffix == <<".", "j", "s", "o", "n">>

\* str::ends_with
ends_with(name, suffix) ==
    /\ Len(suffix) <= Len(name)
    /\ SubSeq(name, Len(name) - Len(suffix) + 1, Len(name)) = suffix

\* str::trim_end_matches: the suffix is removed as many times as it is there
RECURSIVE trim_end_matches(_, _)
trim_end_matches(name, suffix) ==
    IF suffix # <<>> /\ ends_with(name, suffix)
    THEN trim_end_matches(SubSeq(name, 1, Len(name) - Len(suffix)), suffix)
    ELSE name

CodePoint(c) ==
    \* the characters of identifiers in the order of their code points
    LET CodePointOrder ==
            <<"-", ".", "0", "1", "2", "3", "4", "5", "6", "7", "8", "9">>
            \o UpperCase \o LowerCase
    IN
        CHOOSE i \in DOMAIN CodePointOrder : CodePointOrder[i] = c

\* Ord for String: a <= b, character by character
RECURSIVE string_le(_, _)
string_le(a, b) ==
    IF a = <<>> THEN TRUE
    ELSE IF b = <<>> THEN FALSE
    ELSE IF CodePoint(a[1]) < CodePoint(b[1]) THEN TRUE
    ELSE IF CodePoint(a[1]) > CodePoint(b[1]) THEN FALSE
    ELSE string_le(Tail(a), Tail(b))

\* x put into a sorted sequence, after the elements equal to it
RECURSIVE insert_sorted(_, _)
insert_sorted(x, sorted) ==
    IF sorted = <<>> THEN <<x>>
    ELSE IF string_le(sorted[1], x)
    THEN <<sorted[1]>> \o insert_sorted(x, Tail(sorted))
    ELSE <<x>> \o sorted

\* versions.sort()
RECURSIVE sort(_)
sort(versions) ==
    IF versions = <<>> THEN <<>>
    ELSE insert_sorted(versions[Len(versions)],
                       sort(SubSeq(versions, 1, Len(versions) - 1)))

\* the orders in which the directory may hand out its entries
DirOrders ==
    {<<"1.7.0-dev", "1.0.0.json", "1.2.0", "1.0.0", "1.3.0-RC1", "1.10.0">>,
     <<"1.10.0", "1.3.0-RC1", "1.0.0", "1.2.0", "1.0.0.json", "1.7.0-dev">>}

\* std::fs::read_dir(schema_dir): the file names, in the order the directory
\* hands them out, with or without a file that is no schema document
read_dir(st, order, stray) ==
    \* a file of the directory that is not a schema document
    LET stray_file ==
            <<"n", "o", "t", "e", "s", ".", "t", "x", "t">>
    IN
        LET ids == SelectSeq(order, LAMBDA id : id \in DOMAIN st)
        IN  (IF stray THEN <<stray_file>> ELSE <<>>)
            \o [i \in DOMAIN ids |-> Chars(ids[i]) \o json_suffix]

\* list_versions (schema.rs:118-138), the directory being readable
list_versions(exists, st, order, stray) ==
    IF ~exists
    THEN Ok(<<Chars("1.7.0-dev")>>)
    ELSE LET names == SelectSeq(read_dir(st, order, stray),
                                LAMBDA name : ends_with(name, json_suffix))
             versions == [i \in DOMAIN names |-> trim_end_matches(names[i], json_suffix)]
         IN  Ok(sort(versions))

\* the words that mark a version as not stable
markers ==
    [dev |-> <<"d", "e", "v">>,
     alpha |-> <<"a", "l", "p", "h", "a">>,
     beta |-> <<"b", "e", "t", "a">>,
     rc |-> <<"r", "c">>]

\* the filter with the markers looked for in the identifier as written
is_stable_case_sensitive(v) ==
    /\ ~contains(v, markers.dev)
    /\ ~contains(v, markers.alpha)
    /\ ~contains(v, markers.beta)
    /\ ~contains(v, markers.rc)

\* the filter of get_newest_stable_version (schema.rs:145-151)
is_stable(v) ==
    LET v_lower == to_lowercase(v)
    IN  /\ ~contains(v_lower, markers.dev)
        /\ ~contains(v_lower, markers.alpha)
        /\ ~contains(v_lower, markers.beta)
        /\ ~contains(v_lower, markers.rc)

\* get_newest_stable_version taking the first survivor
get_newest_stable_version_first(exists, st, order, stray) ==
    LET versions == list_versions(exists, st, order, stray)
    IN  IF ~versions.ok THEN versions
        ELSE LET stable == SelectSeq(versions.v, is_stable)
             IN  IF stable = <<>>
                 THEN Err("No stable OCSF versions found")
                 ELSE Ok(stable[1])

\* get_newest_stable_version (schema.rs:141-158)
get_newest_stable_version(exists, st, order, stray) ==
    LET versions == list_versions(exists, st, order, stray)
    IN  IF ~versions.ok THEN versions
        ELSE LET stable == SelectSeq(versions.v, is_stable)
             IN  IF stable = <<>>
                 THEN Err("No stable OCSF versions found")
                 ELSE Ok(stable[Len(stable)])

VersionStores ==
    \* a document that parses and declares no class (`classes` has a serde default)
    LET EmptyClassesDoc ==
            Doc(TRUE, TRUE, "1.0.0", NoClasses)
        \* the documents of the stores whose versions are listed
        VersionDocs ==
            {GoodDoc, MalformedDoc, EmptyClassesDoc}
    IN
        UNION {[ids -> VersionDocs] : ids \in SUBSET ListedIds}

(***************************************************************************)
(* OcsfSchema::get_required_attributes (src/src/ocsf/schema.rs)            *)
(***************************************************************************)
\* the orders in which a HashMap may hand out the keys of keys
IterOrders(keys) ==
    {iter \in [1..Cardinality(keys) -> keys] :
        \A i, j \in 1..Cardinality(keys) : iter[i] = iter[j] => i = j}

\* get_required_attributes keeping the attributes marked "required" only
get_required_attributes_required_only(schema, event_class, iter) ==
    IF event_class \in DOMAIN schema.classes
    THEN LET ec == schema.classes[event_class]
         IN  SelectSeq(iter, LAMBDA name : ec.attributes[name].requirement = "required")
    ELSE <<>>

\* get_required_attributes (schema.rs:321-335); iter is the order in which
\* ec.attributes.iter() hands out the attribute names
get_required_attributes(schema, event_class, iter) ==
    IF event_class \in DOMAIN schema.classes
    THEN LET ec == schema.classes[event_class]
         IN  SelectSeq(iter, LAMBDA name :
                 \/ ec.attributes[name].requirement = "required"
                 \/ ec.attributes[name].requirement = "recommended")
    ELSE <<>>

(***************************************************************************)
(* OcsfSchema::list_categories and list_event_classes_for_category         *)
(* (src/src/ocsf/schema.rs)                                                *)
(***************************************************************************)
\* format!(template, args...): a string that carries its arguments
Formatted(template, args) == [t |-> "str", n |-> U(0), s |-> template, o |-> args]

\* get_category_description (schema.rs:338-355), as a JSON string
get_category_description(category) ==
    CASE category = "system" ->
           Str("System Activity - Operating system and device-level events")
      [] category = "findings" ->
           Str("Findings - Security findings from scanning, detection, and analysis")
      [] category = "iam" ->
           Str("Identity & Access Management - Authentication, authorization, and account management")
      [] category = "network" -> Str("Network Activity - Network connections and traffic")
      [] category = "discovery" -> Str("Discovery - Resource and asset discovery")
      [] category = "application" -> Str("Application Activity - Application-specific events")
      [] category = "remediation" -> Str("Remediation - Security remediation activities")
      [] category = "other" -> Str("Other - Miscellaneous events")
      [] OTHER -> Formatted("Category: {category}", <<category>>)

CategorySummary(name, description, event_count, event_classes) ==
    [name |-> name, description |-> description, event_count |-> event_count,
     event_classes |-> event_classes]

\* the keys of category_map once the loop of list_categories is over
category_keys(schema) ==
    {schema.classes[name].category : name \in DOMAIN schema.classes \ {"base_event"}}

\* list_categories (schema.rs:261-284).  iter is the order in which
\* &self.classes hands out its entries, cat_iter the order in which
\* category_map.into_iter() hands out its own
list_categories(schema, iter, cat_iter) ==
    LET kept == SelectSeq(iter, LAMBDA name : name # "base_event")
        members(c) == SelectSeq(kept, LAMBDA name : schema.classes[name].category = c)
    IN  [i \in DOMAIN cat_iter |->
            CategorySummary(cat_iter[i], get_category_description(cat_iter[i]),
                            Len(members(cat_iter[i])), members(cat_iter[i]))]

\* the documents of the model carry neither caption nor description: the caption
\* is the name and the description the fixed text
EventClassSummary(ec) ==
    [uid |-> ec.uid, name |-> ec.name, caption |-> ec.name,
     description |-> "No description available", category |-> ec.category]

\* list_event_classes_for_category (schema.rs:286-301).  iter is the order in
\* which self.classes.values() hands out the classes, by key
list_event_classes_for_category(schema, category, iter) ==
    LET kept == SelectSeq(iter, LAMBDA key :
                    /\ schema.classes[key].category = category
                    /\ schema.classes[key].name # "base_event")
    IN  [i \in DOMAIN kept |-> EventClassSummary(schema.classes[kept[i]])]

BrowseStores ==
    \* the documents of the stores that are browsed
    LET BrowseDocs ==
            {GoodDoc, AliasedDoc, MalformedDoc}
    IN
        UNION {[ids -> BrowseDocs] : ids \in SUBSET StoredIds}

(***************************************************************************)
(* BrowseSchema (src/src/tools/schema_browser.rs)                          *)
(***************************************************************************)
BrowseSchemaRequest(version, category, event_class, show_attributes) ==
    [version |-> version, category |-> category, event_class |-> event_class,
     show_attributes |-> show_attributes]

\* Option<Vec<T>> as serde writes it: null, or the array of the items
OptArr(present, items) == IF present THEN ArrOf(items) ELSE Null

\* serde_json::to_string_pretty(&SchemaInfo {...}): the four members in
\* declaration order, a payload of None written as null
SchemaInfo(summary, categories, event_classes, attributes) ==
    Text(Obj(<<Member("summary", summary),
               Member("categories", categories),
               Member("event_classes", event_classes),
               Member("attributes", attributes)>>))

CategorySummaryJson(c) ==
    Obj(<<Member("name", Str(c.name)),
          Member("description", c.description),
          Member("event_count", Num(U(c.event_count))),
          Member("event_classes",
                 ArrOf([i \in DOMAIN c.event_classes |-> Str(c.event_classes[i])]))>>)

EventClassSummaryJson(c) ==
    Obj(<<Member("uid", Num(c.uid)),
          Member("name", Str(c.name)),
          Member("caption", Str(c.caption)),
          Member("description", Str(c.description)),
          Member("category", Str(c.category))>>)

\* AttributeSummary built at schema_browser.rs:71-76
AttributeSummaryJson(attr, ec) ==
    Obj(<<Member("name", Str(attr)),
          Member("data_type", Str("string")),
          Member("description", Formatted("Required field for {}", <<ec.name>>)),
          Member("required", Bool(TRUE))>>)

\* the class branch with the attributes listed whatever show_attributes says
browse_event_class_always_attributes(schema, ec_name, show_attributes, iters) ==
    LET ec == schema.classes[ec_name]
        req_attrs == get_required_attributes(schema, ec_name, iters.attributes)
    IN  Ok(SchemaInfo(
            Formatted("Event class '{}' (UID: {}) - {} required fields",
                      <<ec.name, ec.uid, Len(req_attrs)>>),
            Null, Null,
            OptArr(TRUE, [i \in DOMAIN req_attrs |->
                              AttributeSummaryJson(req_attrs[i], ec)])))

\* schema_browser.rs:64-96: the details of a class that the schema has
browse_event_class(schema, ec_name, show_attributes, iters) ==
    LET ec == schema.classes[ec_name]
        req_attrs == get_required_attributes(schema, ec_name, iters.attributes)
    IN  Ok(SchemaInfo(
            Formatted("Event class '{}' (UID: {}) - {} required fields",
                      <<ec.name, ec.uid, Len(req_attrs)>>),
            Null, Null,
            OptArr(show_attributes, [i \in DOMAIN req_attrs |->
                                        AttributeSummaryJson(req_attrs[i], ec)])))

\* schema_browser.rs:26-99, from the result of load_version on
browse_loaded(loaded, request, iters) ==
    LET schema == loaded.v
    IN  IF ~loaded.ok THEN Err(loaded.err)
        ELSE IF ~request.category.some /\ ~request.event_class.some
        THEN LET categories == list_categories(schema, iters.classes, iters.categories)
             IN  Ok(SchemaInfo(
                     Formatted("OCSF v{} - {} categories available",
                               <<schema.version, Len(categories)>>),
                     OptArr(TRUE, [i \in DOMAIN categories |->
                                      CategorySummaryJson(categories[i])]),
                     Null, Null))
        ELSE IF request.category.some
        THEN LET event_classes == list_event_classes_for_category(
                                      schema, request.category.v, iters.classes)
             IN  Ok(SchemaInfo(
                     Formatted("Category '{}' contains {} event classes",
                               <<request.category.v, Len(event_classes)>>),
                     Null,
                     OptArr(TRUE, [i \in DOMAIN event_classes |->
                                      EventClassSummaryJson(event_classes[i])]),
                     Null))
        ELSE IF request.event_class.v \in DOMAIN schema.classes
        THEN browse_event_class(schema, request.event_class.v,
                                request.show_attributes, iters)
        ELSE Err("Event class not found")

\* schema_browser.rs:17: request.version.as_deref().unwrap_or("1.7.0-dev")
browse_version(request) ==
    IF request.version.some THEN request.version.v ELSE "1.7.0-dev"

\* browse_ocsf_schema (schema_browser.rs:16-100)
browse_ocsf_schema(st, request, iters) ==
    browse_loaded(load_version(st, browse_version(request)), request, iters)

BrowseSchemaRequests ==
    {BrowseSchemaRequest(version, category, event_class, show_attributes) :
        version \in {NoneS, SomeS("1.0.0")},
        category \in {NoneS, SomeS("iam"), SomeS("no_such_category")},
        event_class \in {NoneS, SomeS("authentication"), SomeS("login"),
                         SomeS("does_not_exist")},
        show_attributes \in BOOLEAN}

\* the orders a call on the request can draw from the schema it loads
BrowseIters(st, request) ==
    \* the iteration orders one call draws: of schema.classes, of category_map and
    \* of the attributes of the class asked for
    LET Iters(classes, categories, attributes) ==
            [classes |-> classes, categories |-> categories, attributes |-> attributes]
    IN
        LET loaded == load_version(st, IF request.version.some THEN request.version.v
                                       ELSE "1.7.0-dev")
            byClass == ~request.category.some /\ request.event_class.some
        IN  IF ~loaded.ok
            THEN {Iters(<<>>, <<>>, <<>>)}
            ELSE {Iters(classes, categories, attributes) :
                    classes \in IF byClass THEN {<<>>}
                                ELSE IterOrders(DOMAIN loaded.v.classes),
                    categories \in IF request.category.some \/ request.event_class.some
                                   THEN {<<>>}
                                   ELSE IterOrders(category_keys(loaded.v)),
                    attributes \in IF byClass /\ request.event_class.v \in DOMAIN loaded.v.classes
                                   THEN IterOrders(DOMAIN loaded.v.classes[request.event_class.v].attributes)
                                   ELSE {<<>>}}

(***************************************************************************)
(* Requests in flight together (src/src/tools/mod.rs).  Every handler is   *)
(* an async fn on &self: it runs up to the .await of load_version, keeps   *)
(* the loaded schema in a local of its own future, and answers from it.    *)
(***************************************************************************)
Clients == {"a", "b"}

\* the local `schema` of a handler that has not reached load_version yet
NotLoaded == Err("NotLoaded")

\* event_generator.rs:30-107, from the result of load_version on
generate_loaded(loaded, r, t, uuid, wraps) ==
    IF ~loaded.ok THEN GenErr("SchemaLoadError")
    ELSE IF r.event_class \notin DOMAIN loaded.v.classes
    THEN GenErr("EventClassNotFound")
    ELSE generate_with_class(r, loaded.v.classes[r.event_class], t, uuid, wraps)

\* the schema a handler answers from, were it kept in one place for all handlers
local_schema_shared(schemas, p) ==
    IF schemas["a"].err # "NotLoaded" THEN schemas["a"] ELSE schemas[p]

\* the schema a handler answers from: the local of its own future
\* (event_generator.rs:26-28, schema_browser.rs:26-28)
local_schema(schemas, p) == schemas[p]

ConcurrentGenerateRequests ==
    [version : {NoneS, SomeS("1.0.0")},
     event_class : {"authentication", "custom_class"},
     required_fields : {ListSource(<<"time">>), ListSource(<<"type_uid">>)},
     optional_fields : {NoSource}]

(***************************************************************************)
(* The tool handlers of OcsfServer (src/src/tools/mod.rs): the result of   *)
(* the tool function becomes a CallToolResult or an McpError.              *)
(***************************************************************************)
\* Ok(CallToolResult::success(vec![Content::text(result)]))
CallToolSuccess(text) ==
    [outcome |-> "success", code |-> "", message |-> "", content |-> text]

\* Err(McpError::internal_error(code, Some(json!({"error": e.to_string()}))))
McpInternalError(code, message) ==
    [outcome |-> "error", code |-> code, message |-> message, content |-> InvalidText]

\* match tool_impl(request).await { Ok(result) => ..., Err(e) => ... }
tool_result(code, result) ==
    IF result.ok THEN CallToolSuccess(result.v) ELSE McpInternalError(code, result.err)

\* the same `match` on the result of generate_ocsf_event, which may not return
generate_tool_result(result) ==
    \* the handler panics: the `match` is not reached, neither value is built
    LET Unwound ==
            [outcome |-> "panic", code |-> "", message |-> "", content |-> InvalidText]
    IN
        IF result.err = "panic" THEN Unwound
        ELSE IF result.ok THEN CallToolSuccess(result.json)
        ELSE McpInternalError("generate_event_error", result.err)

\* serde_json::to_string_pretty(&report) for a ValidationReport
ReportJson(report) ==
    Obj(<<Member("is_valid", Bool(report.is_valid)),
          Member("errors", ArrOf([i \in DOMAIN report.errors |->
              Obj(<<Member("field", Str(report.errors[i].field)),
                    Member("error_type", Str(report.errors[i].error_type))>>)])),
          Member("warnings", ArrOf(<<>>)),
          Member("event_class", IF report.event_class.some
                                THEN Str(report.event_class.v) ELSE Null),
          Member("summary", Formatted("summary", report.summary))>>)

\* validate_ocsf_event (validator.rs:12-19)
validate_ocsf_event(event_json) ==
    LET report == validate_event(event_json)
    IN  IF report.ok THEN Ok(Text(ReportJson(report.v))) ELSE Err(report.err)

\* list_ocsf_versions (version_tools.rs:25-35)
list_ocsf_versions(exists, st, order, stray) ==
    LET versions == list_versions(exists, st, order, stray)
    IN  IF ~versions.ok THEN versions
        ELSE Ok(Text(Obj(<<Member("versions",
                                  ArrOf([i \in DOMAIN versions.v |-> Str(versions.v[i])])),
                           Member("count", Num(U(Len(versions.v))))>>)))

\* get_newest_ocsf_version (version_tools.rs:38-48)
get_newest_ocsf_version(exists, st, order, stray) ==
    LET version == get_newest_stable_version(exists, st, order, stray)
    IN  IF ~version.ok THEN version
        ELSE Ok(Text(Obj(<<Member("version", Str(version.v)),
                           Member("is_stable", Bool(TRUE))>>)))

Init ==
    /\ store \in Stores
    /\ schema_dir \in BOOLEAN
    /\ ~schema_dir => DOMAIN store = {}
    /\ now = 0
    /\ op = "idle"
    /\ req = Null
    /\ res = Null

\* the wall clock advances; a handler is one step and reads the clock inside it
Tick ==
    /\ op = "idle"
    /\ now < MaxNow
    /\ now' = now + 1
    /\ UNCHANGED <<store, schema_dir, op, req, res>>

\* OcsfSchema::load_version(version)
Load ==
    \E version \in VersionIds :
        /\ op = "idle"
        /\ op' = "load"
        /\ req' = [version |-> version]
        /\ res' = load_version(store, version)
        /\ UNCHANGED <<store, schema_dir, now>>

\* GenerateEvent: generate_ocsf_event(request)
GenerateEvent ==
    \E r \in GenerateRequests, uuid \in 1..MaxUuid, wraps \in BOOLEAN :
        /\ op = "idle"
        /\ op' = "generate"
        /\ req' = r
        /\ res' = generate_ocsf_event(store, r, now, uuid, wraps)
        /\ UNCHANGED <<store, schema_dir, now>>

\* ValidateEvent: validate_event(&request.event_json)
ValidateEvent ==
    \E text \in ValidateTexts :
        /\ op = "idle"
        /\ op' = "validate"
        /\ req' = text
        /\ res' = validate_event(text)
        /\ UNCHANGED <<store, schema_dir, now>>

\* MapCustomToOcsf: map_custom_to_ocsf(request)
MapCustomToOcsf ==
    \E request \in MapCustomRequests :
        /\ op = "idle"
        /\ op' = "map"
        /\ req' = request
        /\ res' = map_custom_to_ocsf(request)
        /\ UNCHANGED <<store, schema_dir, now>>

\* the state after construction, with the stores whose versions are listed
InitVersions ==
    /\ store \in VersionStores
    /\ schema_dir \in BOOLEAN
    /\ ~schema_dir => DOMAIN store = {}
    /\ now = 0
    /\ op = "idle"
    /\ req = Null
    /\ res = Null

\* OcsfSchema::list_versions()
ListVersions ==
    \E order \in DirOrders, stray \in BOOLEAN :
        /\ op = "idle"
        /\ op' = "list_versions"
        /\ req' = Null
        /\ res' = list_versions(schema_dir, store, order, stray)
        /\ UNCHANGED <<store, schema_dir, now>>

\* OcsfSchema::get_newest_stable_version()
GetNewestStableVersion ==
    \E order \in DirOrders, stray \in BOOLEAN :
        /\ op = "idle"
        /\ op' = "newest"
        /\ req' = Null
        /\ res' = get_newest_stable_version(schema_dir, store, order, stray)
        /\ UNCHANGED <<store, schema_dir, now>>

\* load_version(v) for an identifier v that list_versions returns
LoadListed ==
    \E order \in DirOrders, stray \in BOOLEAN :
        LET versions == list_versions(schema_dir, store, order, stray)
        IN  /\ op = "idle"
            /\ versions.ok
            /\ \E i \in DOMAIN versions.v :
                   /\ op' = "load_listed"
                   /\ req' = [version |-> Ident(versions.v[i])]
                   /\ res' = load_version(store, Ident(versions.v[i]))
            /\ UNCHANGED <<store, schema_dir, now>>

\* load_version(get_newest_stable_version()?)
LoadNewestStable ==
    \E order \in DirOrders, stray \in BOOLEAN :
        LET newest == get_newest_stable_version(schema_dir, store, order, stray)
        IN  /\ op = "idle"
            /\ newest.ok
            /\ op' = "load_newest"
            /\ req' = [version |-> Ident(newest.v)]
            /\ res' = load_version(store, Ident(newest.v))
            /\ UNCHANGED <<store, schema_dir, now>>

\* schema.get_required_attributes(event_class) on a loaded schema
GetRequiredAttributes ==
    \* the class names a query may name
    LET QueryClassNames ==
            ClassNames \cup {"base_event", "network_activity"}
    IN
        \E version \in VersionIds, event_class \in QueryClassNames :
            LET loaded == load_version(store, version)
                keys == IF loaded.ok /\ event_class \in DOMAIN loaded.v.classes
                        THEN DOMAIN loaded.v.classes[event_class].attributes
                        ELSE {}
            IN  /\ op = "idle"
                /\ loaded.ok
                /\ \E iter \in IterOrders(keys) :
                       /\ op' = "required_attributes"
                       /\ req' = [version |-> version, event_class |-> event_class]
                       /\ res' = [names |-> get_required_attributes(loaded.v, event_class, iter)]
                /\ UNCHANGED <<store, schema_dir, now>>

\* the state after construction, with the stores that are browsed
InitBrowse ==
    /\ store \in BrowseStores
    /\ schema_dir \in BOOLEAN
    /\ ~schema_dir => DOMAIN store = {}
    /\ now = 0
    /\ op = "idle"
    /\ req = Null
    /\ res = Null

\* schema.list_categories() on a loaded schema
ListCategories ==
    \E version \in VersionIds :
        LET loaded == load_version(store, version)
        IN  /\ op = "idle"
            /\ loaded.ok
            /\ \E iter \in IterOrders(DOMAIN loaded.v.classes),
                  cat_iter \in IterOrders(category_keys(loaded.v)) :
                   /\ op' = "list_categories"
                   /\ req' = [version |-> version]
                   /\ res' = [entries |-> list_categories(loaded.v, iter, cat_iter)]
            /\ UNCHANGED <<store, schema_dir, now>>

\* BrowseSchema: browse_ocsf_schema(request)
BrowseSchema ==
    \E request \in BrowseSchemaRequests :
        \E iters \in BrowseIters(store, request) :
            /\ op = "idle"
            /\ op' = "browse"
            /\ req' = request
            /\ res' = browse_ocsf_schema(store, request, iters)
            /\ UNCHANGED <<store, schema_dir, now>>

\* the state after construction, no request in flight
InitConcurrent ==
    /\ store \in Stores
    /\ schema_dir \in BOOLEAN
    /\ ~schema_dir => DOMAIN store = {}
    /\ now = 0
    /\ op = [p \in Clients |-> "idle"]
    /\ req = [p \in Clients |-> Null]
    /\ res = [p \in Clients |-> [schema |-> NotLoaded, out |-> Null]]

\* the clock advances while requests are in flight
TickConcurrent ==
    /\ now < MaxNow
    /\ now' = now + 1
    /\ UNCHANGED <<store, schema_dir, op, req, res>>

\* a generate_ocsf_event call arrives
CallGenerate(p) ==
    \E r \in ConcurrentGenerateRequests :
        /\ op[p] = "idle"
        /\ op' = [op EXCEPT ![p] = "called"]
        /\ req' = [req EXCEPT ![p] = [kind |-> "generate", r |-> r, version |-> requested_version(r),
                                       t |-> 0, uuid |-> 0, wraps |-> FALSE]]
        /\ UNCHANGED <<store, schema_dir, now, res>>

\* a browse_ocsf_schema call arrives
CallBrowse(p) ==
    LET ConcurrentBrowseRequests ==
            {BrowseSchemaRequest(version, category, SomeS("authentication"), TRUE) :
                version \in {NoneS, SomeS("1.0.0")},
                category \in {NoneS, SomeS("iam")}}
    IN
        \E r \in ConcurrentBrowseRequests :
            /\ op[p] = "idle"
            /\ op' = [op EXCEPT ![p] = "called"]
            /\ req' = [req EXCEPT ![p] = [kind |-> "browse", r |-> r, version |-> browse_version(r),
                                           t |-> 0, uuid |-> 0, wraps |-> FALSE]]
            /\ UNCHANGED <<store, schema_dir, now, res>>

\* a validate_ocsf_event call arrives
CallValidate(p) ==
    LET ConcurrentValidateTexts ==
            {InvalidText, Text(Obj(<<Member("metadata", FullMetadata), Member("time", Str("t"))>>))}
    IN
        \E text \in ConcurrentValidateTexts :
            /\ op[p] = "idle"
            /\ op' = [op EXCEPT ![p] = "called"]
            /\ req' = [req EXCEPT ![p] = [kind |-> "validate", r |-> text, version |-> "",
                                           t |-> 0, uuid |-> 0, wraps |-> FALSE]]
            /\ UNCHANGED <<store, schema_dir, now, res>>

\* OcsfSchema::load_version(version).await in the handler of p
LoadSchema(p) ==
    /\ op[p] = "called"
    /\ req[p].kind \in {"generate", "browse"}
    /\ op' = [op EXCEPT ![p] = "loaded"]
    /\ res' = [res EXCEPT ![p].schema = load_version(store, req[p].version)]
    /\ UNCHANGED <<store, schema_dir, now, req>>

\* the rest of generate_ocsf_event, from the schema the handler holds
RespondGenerate(p) ==
    \E uuid \in 1..MaxUuid, wraps \in BOOLEAN :
        /\ op[p] = "loaded"
        /\ req[p].kind = "generate"
        /\ op' = [op EXCEPT ![p] = "done"]
        /\ req' = [req EXCEPT ![p].t = now, ![p].uuid = uuid, ![p].wraps = wraps]
        /\ res' = [res EXCEPT ![p].out =
                       generate_loaded(local_schema([q \in Clients |-> res[q].schema], p),
                                       req[p].r, now, uuid, wraps)]
        /\ UNCHANGED <<store, schema_dir, now>>

\* the rest of browse_ocsf_schema, from the schema the handler holds
RespondBrowse(p) ==
    /\ op[p] = "loaded"
    /\ req[p].kind = "browse"
    /\ \E iters \in BrowseIters(store, req[p].r) :
           /\ op' = [op EXCEPT ![p] = "done"]
           /\ res' = [res EXCEPT ![p].out =
                          browse_loaded(local_schema([q \in Clients |-> res[q].schema], p),
                                        req[p].r, iters)]
    /\ UNCHANGED <<store, schema_dir, now, req>>

\* validate_ocsf_event: no .await between the call and the answer
RespondValidate(p) ==
    /\ op[p] = "called"
    /\ req[p].kind = "validate"
    /\ op' = [op EXCEPT ![p] = "done"]
    /\ res' = [res EXCEPT ![p].out = validate_event(req[p].r)]
    /\ UNCHANGED <<store, schema_dir, now, req>>

\* the transport takes the response of p; the handler's future is dropped
DeliverTo(p) ==
    /\ op[p] = "done"
    /\ op' = [op EXCEPT ![p] = "idle"]
    /\ req' = [req EXCEPT ![p] = Null]
    /\ res' = [res EXCEPT ![p] = [schema |-> NotLoaded, out |-> Null]]
    /\ UNCHANGED <<store, schema_dir, now>>

\* OcsfServer::browse_ocsf_schema (mod.rs:57-69)
ToolBrowseSchema ==
    \E request \in BrowseSchemaRequests :
        \E iters \in BrowseIters(store, request) :
            /\ op = "idle"
            /\ op' = "tool_browse"
            /\ req' = request
            /\ res' = tool_result("browse_schema_error",
                                  browse_ocsf_schema(store, request, iters))
            /\ UNCHANGED <<store, schema_dir, now>>

\* OcsfServer::generate_ocsf_event (mod.rs:71-83)
ToolGenerateEvent ==
    LET ToolGenerateRequests ==
            ConcurrentGenerateRequests
            \cup [version : {NoneS},
                  event_class : {"authentication", "does_not_exist"},
                  required_fields : {BadJsonSource, JsonSource(<<Member("time", Str("t0"))>>)},
                  optional_fields : {NoSource, SomeSource(BadJsonSource)}]
    IN
        \E r \in ToolGenerateRequests, uuid \in 1..MaxUuid, wraps \in BOOLEAN :
            /\ op = "idle"
            /\ op' = "tool_generate"
            /\ req' = r
            /\ res' = generate_tool_result(generate_ocsf_event(store, r, now, uuid, wraps))
            /\ UNCHANGED <<store, schema_dir, now>>

\* OcsfServer::validate_ocsf_event (mod.rs:85-97)
ToolValidateEvent ==
    \E text \in ValidateTexts :
        /\ op = "idle"
        /\ op' = "tool_validate"
        /\ req' = text
        /\ res' = tool_result("validate_event_error", validate_ocsf_event(text))
        /\ UNCHANGED <<store, schema_dir, now>>

\* OcsfServer::map_custom_to_ocsf (mod.rs:113-125)
ToolMapCustom ==
    \E request \in MapCustomRequests :
        /\ op = "idle"
        /\ op' = "tool_map"
        /\ req' = request
        /\ res' = tool_result("map_custom_error", map_custom_to_ocsf(request))
        /\ UNCHANGED <<store, schema_dir, now>>

\* OcsfServer::list_ocsf_versions (mod.rs:141-153)
ToolListVersions ==
    \E order \in DirOrders, stray \in BOOLEAN :
        /\ op = "idle"
        /\ op' = "tool_list_versions"
        /\ req' = Null
        /\ res' = tool_result("list_versions_error",
                              list_ocsf_versions(schema_dir, store, order, stray))
        /\ UNCHANGED <<store, schema_dir, now>>

\* OcsfServer::get_newest_ocsf_version (mod.rs:155-167)
ToolGetNewestVersion ==
    \E order \in DirOrders, stray \in BOOLEAN :
        /\ op = "idle"
        /\ op' = "tool_newest_version"
        /\ req' = Null
        /\ res' = tool_result("get_newest_version_error",
                              get_newest_ocsf_version(schema_dir, store, order, stray))
        /\ UNCHANGED <<store, schema_dir, now>>

\* the document GenerateEvent returned is handed to ValidateEvent
ValidateGenerated ==
    /\ op = "generate"
    /\ res.ok
    /\ op' = "validate_generated"
    /\ req' = [request |-> req, event_json |-> res.json]
    /\ res' = validate_event(res.json)
    /\ UNCHANGED <<store, schema_dir, now>>

\* the transport takes the response (tools/mod.rs wraps it in a CallToolResult or
\* an McpError); nothing of the request is kept
Deliver ==
    /\ op # "idle"
    /\ op' = "idle"
    /\ req' = Null
    /\ res' = Null
    /\ UNCHANGED <<store, schema_dir, now>>

Next ==
    Tick \/ Load \/ GenerateEvent \/ ValidateEvent \/ GetRequiredAttributes \/ Deliver

Spec == Init /\ [][Next]_vars

\* the server answering mapping requests only
NextMapper == MapCustomToOcsf \/ Deliver

SpecMapper == Init /\ [][NextMapper]_vars

\* the version operations of OcsfSchema over the stores whose versions are listed
NextVersions ==
    ListVersions \/ GetNewestStableVersion \/ LoadListed \/ LoadNewestStable \/ Deliver

SpecVersions == InitVersions /\ [][NextVersions]_vars

\* the server answering the queries on the schema index
NextBrowse == BrowseSchema \/ ListCategories \/ Deliver

SpecBrowse == InitBrowse /\ [][NextBrowse]_vars

\* the server with the requests of two clients in flight together
NextConcurrent ==
    \/ TickConcurrent
    \/ \E p \in Clients :
           \/ CallGenerate(p)
           \/ CallBrowse(p)
           \/ CallValidate(p)
           \/ LoadSchema(p)
           \/ RespondGenerate(p)
           \/ RespondBrowse(p)
           \/ RespondValidate(p)
           \/ DeliverTo(p)

SpecConcurrent == InitConcurrent /\ [][NextConcurrent]_vars

\* the server seen at its tool handlers
NextTools ==
    \/ ToolBrowseSchema
    \/ ToolGenerateEvent
    \/ ToolValidateEvent
    \/ ToolMapCustom
    \/ ToolListVersions
    \/ ToolGetNewestVersion
    \/ Deliver

SpecTools == Init /\ [][NextTools]_vars

\* the server asked to generate an event and then to validate what it returned
NextRoundTrip == GenerateEvent \/ ValidateGenerated \/ Deliver

SpecRoundTrip == Init /\ [][NextRoundTrip]_vars

(***************************************************************************)
(* The properties.  What a request asks for, read from the request alone.  *)
(***************************************************************************)
Generated == op = "generate" /\ res.ok

\* the schema a GenerateEvent request resolves its class in, when the load succeeds
RequestSchema == load_version(store, requested_version(req))

RequestClass == RequestSchema.v.classes[req.event_class]

\* c = u / 1000 in integer division, said with a multiplication: u = 1000 * c + r
IsQuotient1000(u, c) ==
    \E r \in 0..999 :
        LET lo == c[2] * 1000 + r
            hi == c[1] * 1000 + lo \div Limb
        IN  hi < Limb /\ u = <<hi, lo % Limb>>

\* the keys a field source supplies, and whether the optional source is given
SuppliedKeys(source) ==
    IF source.brace
    THEN {source.members[i].k : i \in DOMAIN source.members}
    ELSE {source.pieces[i] : i \in DOMAIN source.pieces} \ {""}

RequiredKeys == SuppliedKeys(req.required_fields)

OptionalKeys ==
    IF req.optional_fields.some THEN SuppliedKeys(req.optional_fields.v) ELSE {}

C3_NoCallerCategorySurvives ==
    (Generated /\ "category_uid" \in RequiredKeys \cup OptionalKeys) =>
        /\ IsQuotient1000(RequestClass.uid, res.event.metadata.category_uid)
        /\ res.event.fields["category_uid"].t = "num"
        /\ IsQuotient1000(RequestClass.uid, res.event.fields["category_uid"].n)

\* the value a structured source gives to key k (the last member with that key)
StructuredValue(source, k) == source.members[LastIndex(source.members, k)].v

\* C3 (amended): if a field source supplies a key category_uid, the event's
\* metadata.category_uid still equals classUid / 1000; the top-level category_uid
\* is the value of the source written last: a structured source's value is kept as
\* the caller gave it, a bare name in the required source gives classUid / 1000,
\* and a bare name in the optional source gives "default_category_uid".
C3_MetadataCategoryNotOverridden ==
    (Generated /\ "category_uid" \in RequiredKeys \cup OptionalKeys) =>
        /\ IsQuotient1000(RequestClass.uid, res.event.metadata.category_uid)
        /\ LET last == IF "category_uid" \in OptionalKeys
                       THEN req.optional_fields.v ELSE req.required_fields
               top == res.event.fields["category_uid"]
           IN  IF last.brace
               THEN top = StructuredValue(last, "category_uid")
               ELSE IF "category_uid" \in OptionalKeys
               THEN top = Str("default_category_uid")
               ELSE top.t = "num" /\ IsQuotient1000(RequestClass.uid, top.n)

C3_Witness ==
    /\ Generated
    /\ req.event_class = "authentication"
    /\ req.required_fields = JsonSource(<<Member("category_uid", Num(U(99)))>>)
    /\ ~req.optional_fields.some
    /\ res.event.fields["category_uid"] = Num(U(99))
    /\ res.event.metadata.category_uid = U(3)

\* a structured source that serde_json refuses
Malformed(source) == source.brace /\ ~source.valid

\* C4: whenever the requested class is absent from the loaded schema,
\* GenerateEvent fails with EventClassNotFound and produces no event, whatever
\* the field sources contain, also when a structured source is malformed.
C4_UnknownClassFailsFirst ==
    (/\ op = "generate"
     /\ RequestSchema.ok
     /\ req.event_class \notin DOMAIN RequestSchema.v.classes) =>
        /\ ~res.ok
        /\ res.err = "EventClassNotFound"
        /\ res.event = NoEvent
        /\ ~res.json.valid

C4_Witness ==
    /\ op = "generate"
    /\ RequestSchema.ok
    /\ req.event_class \notin DOMAIN RequestSchema.v.classes
    /\ Malformed(req.required_fields)
    /\ res.err = "EventClassNotFound"

\* the bare names of a comma-separated source
BareNames(source) == IF source.brace THEN {} ELSE SuppliedKeys(source)

RequiredBare == BareNames(req.required_fields)

OptionalBare ==
    IF req.optional_fields.some THEN BareNames(req.optional_fields.v) ELSE {}

\* v = u * 100 + 1 exactly / in the low 32 bits
IsTimes100Plus1(u, v, exact) ==
    LET lo == u[2] * 100 + 1
        hi == u[1] * 100 + lo \div Limb
    IN  (exact => hi < Limb) /\ v = <<hi % Limb, lo % Limb>>

\* the defaults that do not depend on the source
IsOtherDefault(n, v) == v = Str("default_" \o n)

IsUserExample(v) ==
    /\ v.t = "obj"
    /\ Len(v.o) = 2
    /\ Get(v, "name") = Some(Str("example_user"))
    /\ Get(v, "uid") = Some(Str("1001"))

\* the table of the required source's `match`
IsRequiredTableValue(n, v, exact) ==
    CASE n = "activity_id" -> v = Num(U(1))
      [] n = "severity_id" -> v = Num(U(1))
      [] n = "category_uid" -> v.t = "num" /\ IsQuotient1000(RequestClass.uid, v.n)
      [] n = "class_uid" -> v = Num(RequestClass.uid)
      [] n = "type_uid" -> v.t = "num" /\ IsTimes100Plus1(RequestClass.uid, v.n, exact)
      [] n = "time" -> v = Rfc3339(now)
      [] OTHER -> IsOtherDefault(n, v)

\* the table of the optional source's `match`
IsOptionalTableValue(n, v) ==
    CASE n = "message" -> v = Str("Generated OCSF event")
      [] n = "user" -> IsUserExample(v)
      [] OTHER -> IsOtherDefault(n, v)

\* the one table of the specification: the two together
IsTableValue(n, v) ==
    IF n \in {"message", "user"}
    THEN IsOptionalTableValue(n, v)
    ELSE IsRequiredTableValue(n, v, TRUE)

\* C5 (as stated): a bare name of a comma-separated source, the required and the
\* optional alike, gets its value from one table: activity_id=1, severity_id=1,
\* category_uid=classUid/1000, class_uid=classUid, type_uid=classUid*100+1,
\* time=now, message="Generated OCSF event", user={name, uid}, other n="default_n".
\* (A name that the optional source overrides is read in the optional source.)
C5_OneDefaultTable ==
    Generated =>
        /\ \A n \in RequiredBare \ OptionalKeys : IsTableValue(n, res.event.fields[n])
        /\ \A n \in OptionalBare : IsTableValue(n, res.event.fields[n])

\* C5 (amended): each source has its own table.  A bare name of the required
\* source gives activity_id=1, severity_id=1, category_uid=classUid/1000,
\* class_uid=classUid, type_uid=classUid*100+1 in u32 arithmetic (the low 32 bits
\* of the product), time=now, and any other name n, message and user among them,
\* "default_n".  A bare name of the optional source gives message="Generated OCSF
\* event", user={name:"example_user", uid:"1001"}, and any other name n,
\* activity_id, severity_id, category_uid, class_uid, type_uid and time among
\* them, "default_n".
C5_TwoDefaultTables ==
    Generated =>
        /\ \A n \in RequiredBare \ OptionalKeys :
              IsRequiredTableValue(n, res.event.fields[n], FALSE)
        /\ \A n \in OptionalBare : IsOptionalTableValue(n, res.event.fields[n])

C5_Witness ==
    /\ Generated
    /\ req.required_fields = ListSource(<<"message">>)
    /\ req.optional_fields = SomeSource(ListSource(<<"activity_id">>))
    /\ res.event.fields["message"] = Str("default_message")
    /\ res.event.fields["activity_id"] = Str("default_activity_id")

\* the value each source gives to a key it supplies
RequiredValue(k) ==
    IF req.required_fields.brace
    THEN StructuredValue(req.required_fields, k)
    ELSE required_default(k, RequestClass, now)

OptionalValue(k) ==
    IF req.optional_fields.v.brace
    THEN StructuredValue(req.optional_fields.v, k)
    ELSE optional_default(k)

MergedValue(k) == IF k \in OptionalKeys THEN OptionalValue(k) ELSE RequiredValue(k)

\* C6: the field map of a generated event is the required source's fields
\* overridden by the optional source's: a key of both sources carries the optional
\* source's value, a key of one source carries that source's value, and the only
\* key that may come from neither is `time`.
C6_OptionalOverridesRequired ==
    Generated =>
        /\ \A k \in RequiredKeys \cup OptionalKeys : res.event.fields[k] = MergedValue(k)
        /\ DOMAIN res.event.fields \subseteq RequiredKeys \cup OptionalKeys \cup {"time"}

C6_Witness ==
    /\ Generated
    /\ req.required_fields = JsonSource(<<Member("time", Str("t0"))>>)
    /\ req.optional_fields = SomeSource(JsonSource(<<Member("time", Null)>>))
    /\ res.event.fields["time"] = Null

\* C7: every successfully generated event has a top-level time field; when
\* neither source yields a time key the current UTC timestamp is injected, and
\* when a source yields one, that value is left as merged.
C7_TimeAlwaysPresent ==
    Generated =>
        /\ "time" \in DOMAIN res.event.fields
        /\ Get(res.json.value, "time") = Some(res.event.fields["time"])
        /\ IF "time" \in RequiredKeys \cup OptionalKeys
           THEN res.event.fields["time"] = MergedValue("time")
           ELSE res.event.fields["time"] = Rfc3339(now)

C7_Witness ==
    /\ Generated
    /\ now = 1
    /\ "time" \notin RequiredKeys \cup OptionalKeys
    /\ res.event.fields["time"] = Rfc3339(1)

(***************************************************************************)
(* The validator's report, read against the document.                      *)
(***************************************************************************)
Validated == op = "validate" /\ res.ok

\* the document's member `metadata` (of a repeated key the parser keeps the last)
MetadataMember == Get(req.value, "metadata")

HasMetadataObject == MetadataMember.some /\ MetadataMember.v.t = "obj"

EventClassMember == Get(MetadataMember.v, "event_class")

VersionMember == Get(MetadataMember.v, "version")

ErrorFields == [i \in DOMAIN res.v.errors |-> res.v.errors[i].field]

HasError(field) ==
    \E i \in DOMAIN res.v.errors :
        res.v.errors[i] = [field |-> field, error_type |-> "MissingRequired"]

EmptyDocumentReport ==
    req = Text(Obj(<<>>)) =>
        /\ ~res.v.is_valid
        /\ ErrorFields = <<"metadata", "time">>
        /\ HasError("metadata") /\ HasError("time")

\* C8 (as stated): when the document has no metadata object, the report has a
\* MissingRequired error on `metadata` and none on metadata.event_class or
\* metadata.version; ValidateEvent({}) is invalid with exactly the two errors
\* `metadata`, `time`, in that order.
C8_NoMetadataObject ==
    Validated =>
        /\ ~HasMetadataObject =>
              /\ HasError("metadata")
              /\ ~HasError("metadata.event_class")
              /\ ~HasError("metadata.version")
        /\ EmptyDocumentReport

\* C8 (amended): when the document has no member `metadata` at all, the report
\* has a MissingRequired error on `metadata` and none on metadata.event_class or
\* metadata.version; a member `metadata` that is not an object (a number, a
\* string, null, an array) gets no error on `metadata` but one on
\* metadata.event_class and one on metadata.version; ValidateEvent({}) is invalid
\* with exactly the two errors `metadata`, `time`, in that order.
C8_NoMetadataMember ==
    Validated =>
        /\ ~MetadataMember.some =>
              /\ HasError("metadata")
              /\ ~HasError("metadata.event_class")
              /\ ~HasError("metadata.version")
        /\ (MetadataMember.some /\ ~HasMetadataObject) =>
              /\ ~HasError("metadata")
              /\ HasError("metadata.event_class")
              /\ HasError("metadata.version")
        /\ EmptyDocumentReport

C8_Witness ==
    /\ Validated
    /\ req = Text(Obj(<<>>))
    /\ ~res.v.is_valid
    /\ ErrorFields = <<"metadata", "time">>

\* C9: when metadata is present, the report's eventClass is the member
\* metadata.event_class exactly when that member is a string, also in an invalid
\* report, and otherwise there is a MissingRequired error on
\* metadata.event_class; independently, there is a MissingRequired error on
\* metadata.version exactly when that member is missing.
C9_MetadataMembersChecked ==
    (Validated /\ MetadataMember.some) =>
        /\ res.v.event_class.some <=> (EventClassMember.some /\ EventClassMember.v.t = "str")
        /\ res.v.event_class.some => res.v.event_class.v = EventClassMember.v.s
        /\ HasError("metadata.event_class") <=> ~res.v.event_class.some
        /\ HasError("metadata.version") <=> ~VersionMember.some
        /\ ~HasError("metadata")

C9_Witness ==
    /\ Validated
    /\ req = Text(Obj(<<Member("metadata", Obj(<<Member("event_class", Str("x"))>>))>>))
    /\ ~res.v.is_valid
    /\ res.v.event_class = SomeS("x")
    /\ ErrorFields = <<"metadata.version", "time">>

\* the minimal shape: a metadata object with a string event_class and a version,
\* and a top-level time
HasMinimalShape ==
    /\ HasMetadataObject
    /\ EventClassMember.some /\ EventClassMember.v.t = "str"
    /\ VersionMember.some
    /\ Get(req.value, "time").some

\* C10: in every validation report isValid holds if and only if the error list
\* is empty, if and only if the document has a metadata object with a string
\* event_class and a version, and a top-level time.
C10_ValidIffNoErrorsIffShape ==
    Validated =>
        /\ res.v.is_valid <=> res.v.errors = <<>>
        /\ res.v.errors = <<>> <=> HasMinimalShape

C10_Witness ==
    /\ Validated
    /\ req = Text(Obj(<<Member("metadata", FullMetadata), Member("time", Str("t"))>>))
    /\ res.v.is_valid
    /\ Len(res.v.errors) = 0

\* C11 (as stated): ValidateEvent never fails: for every input text it returns a
\* successful response carrying a report, and never an error.
C11_ValidateNeverFails ==
    op = "validate" => res.ok

\* C11 (amended): ValidateEvent returns a successful response carrying a report
\* for every input text that is JSON, an invalid event document included (the
\* report then has isValid=false); an input text that is not JSON makes the
\* operation fail with an error and no report.
C11_ValidateFailsOnlyOnNonJson ==
    op = "validate" =>
        /\ res.ok <=> req.valid
        /\ res.ok => (res.v.is_valid <=> HasMinimalShape)
        /\ ~res.ok => res.v = Null

C11_Witness ==
    /\ op = "validate"
    /\ req = Text(Obj(<<Member("time", Str("t"))>>))
    /\ res.ok
    /\ ~res.v.is_valid

(***************************************************************************)
(* MapCustomToOcsf                                                         *)
(***************************************************************************)
Mapped == op = "map"

Recommendation == res.v.value

\* kw occurs in text when case is ignored: at some position every character of
\* text, lower-cased, is the character of kw
Occurs(kw, text) ==
    \E i \in 0..(Len(text) - Len(kw)) :
        \A j \in 1..Len(kw) : Lower(text[i + j]) = kw[j]

Rules ==
    <<[label |-> "authentication", keywords |-> {keywords.login, keywords.auth}],
      [label |-> "process_activity", keywords |-> {keywords.process, keywords.exec}],
      [label |-> "network_activity", keywords |-> {keywords.network, keywords.connection}],
      [label |-> "file_activity", keywords |-> {keywords.file, keywords.path}]>>

RuleMatches(i, text) == \E kw \in Rules[i].keywords : Occurs(kw, text)

\* C12: without a hint the suggested class is the label of the first rule, in
\* the order authentication, process_activity, network_activity, file_activity,
\* one of whose keywords occurs in the sample text when case is ignored, and
\* "unknown" when no rule matches; "user login failed" gives authentication.
C12_FirstMatchingRule ==
    (Mapped /\ ~req.suggested_class.some) =>
        LET label == Get(Recommendation, "suggested_event_class")
            matching == {i \in DOMAIN Rules : RuleMatches(i, req.sample_log)}
        IN  /\ res.ok
            /\ label.some
            /\ matching = {} => label.v = Str("unknown")
            /\ \A i \in matching :
                   (\A j \in matching : i <= j) => label.v = Str(Rules[i].label)
            /\ req.sample_log = user_login_failed => label.v = Str("authentication")

\* a text that matches the first and the last rule, in capitals
C12_Witness ==
    /\ Mapped
    /\ ~req.suggested_class.some
    /\ req.sample_log = <<"P", "A", "T", "H", "A", "U", "T", "H">>
    /\ Get(Recommendation, "suggested_event_class").v = Str("authentication")

\* C13: with a hint the suggested class is exactly the hint, whatever the hint
\* (a name of no class, the empty string) and whatever the sample text; the
\* keyword rules are not consulted and the operation does not fail.
C13_HintVerbatim ==
    (Mapped /\ req.suggested_class.some) =>
        /\ res.ok
        /\ Get(Recommendation, "suggested_event_class")
               = Some(Str(req.suggested_class.v))

\* an empty hint with a text that the first rule matches
C13_Witness ==
    /\ Mapped
    /\ req.suggested_class = SomeS("")
    /\ RuleMatches(1, req.sample_log)
    /\ Get(Recommendation, "suggested_event_class").v = Str("")

\* C14: the confidence label and the field mappings do not depend on the
\* request: every response carries confidence "medium" and the three mappings
\* timestamp->time, username->user.name, user_id->user.uid in that order.
C14_ConfidenceAndMappingsFixed ==
    Mapped =>
        LET fm == Get(Recommendation, "field_mappings")
            pair(m) == <<Get(m, "source_field").v, Get(m, "ocsf_field").v>>
        IN  /\ Get(Recommendation, "confidence") = Some(Str("medium"))
            /\ fm.some
            /\ fm.v.t = "arr"
            /\ Len(fm.v.o) = 3
            /\ pair(fm.v.o[1]) = <<Str("timestamp"), Str("time")>>
            /\ pair(fm.v.o[2]) = <<Str("username"), Str("user.name")>>
            /\ pair(fm.v.o[3]) = <<Str("user_id"), Str("user.uid")>>

\* a hinted request whose text matches no rule
C14_Witness ==
    /\ Mapped
    /\ req.suggested_class = SomeS("no_such_class")
    /\ \A i \in DOMAIN Rules : ~RuleMatches(i, req.sample_log)
    /\ req.sample_log # <<>>
    /\ Get(Recommendation, "confidence").v = Str("medium")

(***************************************************************************)
(* The version operations of OcsfSchema                                    *)
(***************************************************************************)
Elems(seq) == {seq[i] : i \in DOMAIN seq}

\* what list_versions returns, for every order of the directory
Listings ==
    {list_versions(schema_dir, store, order, stray) :
        order \in DirOrders, stray \in BOOLEAN}

\* the identifier carries one of the markers when case is ignored
Marked(v) == \E kw \in {markers.dev, markers.alpha, markers.beta, markers.rc} : Occurs(kw, v)

\* a comes before b, or is b, in plain string order
Precedes(a, b) ==
    \/ /\ Len(a) <= Len(b)
       /\ SubSeq(b, 1, Len(a)) = a
    \/ \E k \in 1..Len(a) :
           /\ k <= Len(b)
           /\ SubSeq(a, 1, k - 1) = SubSeq(b, 1, k - 1)
           /\ CodePoint(a[k]) < CodePoint(b[k])

\* what load_version gives for what is stored under the identifier
LoadFollowsDocument(version) ==
    IF version \notin DOMAIN store
    THEN res = Ok(minimal_schema)
    ELSE IF store[version].json /\ store[version].hasVersion
    THEN res.ok /\ res.v.classes = store[version].classes
    ELSE ~res.ok

\* C15: get_newest_stable_version returns the greatest identifier, in plain
\* string order, among those of list_versions() that carry none of "dev",
\* "alpha", "beta", "rc" when lower-cased; it fails with "No stable OCSF versions
\* found" exactly when no identifier of list_versions() is left by that filter.
C15_NewestIsGreatestSurvivor ==
    op = "newest" =>
        \A listing \in Listings :
            LET survivors == {v \in Elems(listing.v) : ~Marked(v)}
            IN  /\ listing.ok
                /\ survivors = {} <=> ~res.ok
                /\ ~res.ok => res.err = "No stable OCSF versions found"
                /\ res.ok =>
                       /\ res.v \in survivors
                       /\ \A w \in survivors : Precedes(w, res.v)

\* "1.2.0" is returned although "1.10.0" is listed too and the markers are on
\* identifiers that come after it
C15_Witness ==
    /\ op = "newest"
    /\ res.ok
    /\ res.v = Chars("1.2.0")
    /\ {"1.10.0", "1.3.0-RC1", "1.7.0-dev"} \subseteq DOMAIN store

C17_ListedSortedNoDuplicates ==
    (op = "list_versions" /\ schema_dir) =>
        /\ res.ok
        /\ Elems(res.v) = {Chars(id) : id \in DOMAIN store}
        /\ \A i, j \in DOMAIN res.v :
               i < j => (Precedes(res.v[i], res.v[j]) /\ res.v[i] # res.v[j])

C19_MinimalSchemaForUnstoredVersion ==
    (op = "load" /\ req.version \notin DOMAIN store) =>
        /\ res.ok
        /\ DOMAIN res.v.classes =
               {"authentication", "process_activity", "file_activity", "network_activity"}
        /\ \A c \in DOMAIN res.v.classes :
               /\ res.v.classes[c].name = c
               /\ DOMAIN res.v.classes[c].attributes = {}
        /\ res.v.classes["authentication"].uid = U(3002)
        /\ res.v.classes["authentication"].category = "iam"
        /\ res.v.classes["process_activity"].uid = U(1007)
        /\ res.v.classes["process_activity"].category = "system"
        /\ res.v.classes["file_activity"].uid = U(1001)
        /\ res.v.classes["file_activity"].category = "system"
        /\ res.v.classes["network_activity"].uid = U(4001)
        /\ res.v.classes["network_activity"].category = "network"

\* a version that another store holds is loaded from a store that does not
C19_Witness ==
    /\ op = "load"
    /\ req.version = "1.0.0"
    /\ DOMAIN store = {"1.7.0-dev"}
    /\ res.ok
    /\ Cardinality(DOMAIN res.v.classes) = 4

QueriedSchema == load_version(store, req.version).v

\* C20: get_required_attributes(class) returns exactly the attribute names of
\* the class whose requirement is "required" or "recommended", each once (never
\* one whose requirement is "optional" or that has none), and the empty list,
\* with no error, when the class is unknown.
C20_RequiredOrRecommendedOnly ==
    op = "required_attributes" =>
        IF req.event_class \in DOMAIN QueriedSchema.classes
        THEN LET attributes == QueriedSchema.classes[req.event_class].attributes
             IN  /\ Elems(res.names) =
                        {a \in DOMAIN attributes :
                            attributes[a].requirement \in {"required", "recommended"}}
                 /\ \A i, j \in DOMAIN res.names : res.names[i] = res.names[j] => i = j
                 /\ \A i \in DOMAIN res.names :
                        attributes[res.names[i]].requirement \notin {"optional", "none"}
        ELSE res.names = <<>>

\* the class with one attribute of each requirement: the recommended one is
\* listed, before the required one
C20_Witness ==
    /\ op = "required_attributes"
    /\ req.event_class = "authentication"
    /\ req.version \in DOMAIN store
    /\ res.names = <<"status", "user">>

(***************************************************************************)
(* The schema index and BrowseSchema                                       *)
(***************************************************************************)
\* the category names of the model in ascending plain string order
CategoryNamesSorted == <<"custom", "iam", "network", "other", "system">>

CategoryRank(c) ==
    CHOOSE i \in DOMAIN CategoryNamesSorted : CategoryNamesSorted[i] = c

\* C21: list_categories() returns its entries sorted by category name, so that
\* two calls on the same schema give the entries in the same order.
C21_CategoriesSortedByName ==
    op = "list_categories" =>
        \A i, j \in DOMAIN res.entries :
            i < j => CategoryRank(res.entries[i].name) < CategoryRank(res.entries[j].name)

\* C26: for every schema and every category c, the list_categories() entry for
\* c names exactly the classes that list_event_classes_for_category(c) returns
\* and its event_count is their number; base_event is in neither result and
\* every other class is in exactly one entry.
C26_CategoryEntriesMatchClassLists ==
    op = "list_categories" =>
        LET schema == QueriedSchema
            names(summaries) == {summaries[i].name : i \in DOMAIN summaries}
            classNames == {schema.classes[k].name : k \in DOMAIN schema.classes}
        IN  /\ \A i \in DOMAIN res.entries :
                   \A iter \in IterOrders(DOMAIN schema.classes) :
                       LET listed == list_event_classes_for_category(
                                         schema, res.entries[i].name, iter)
                       IN  /\ Elems(res.entries[i].event_classes) = names(listed)
                           /\ res.entries[i].event_count = Len(listed)
                           /\ "base_event" \notin names(listed)
                           /\ "base_event" \notin Elems(res.entries[i].event_classes)
            /\ \A c \in classNames \ {"base_event"} :
                   Cardinality({i \in DOMAIN res.entries :
                                   c \in Elems(res.entries[i].event_classes)}) = 1

Browsed == op = "browse"

\* the payloads of a BrowseSchema response that are there (not null)
Payloads ==
    {k \in {"categories", "event_classes", "attributes"} :
        Get(res.v.value, k).some /\ Get(res.v.value, k).v.t # "null"}

\* C22 (as stated): every successful BrowseSchema response carries a summary
\* and exactly one of the payloads categories, event_classes, attributes, for
\* every combination of category, event_class and show_attributes.
C22_ExactlyOnePayload ==
    (Browsed /\ res.ok) =>
        /\ Get(res.v.value, "summary").some
        /\ Get(res.v.value, "summary").v.t = "str"
        /\ Cardinality(Payloads) = 1

\* C22 (amended): every successful BrowseSchema response carries a summary and
\* at most one payload: categories when neither category nor event_class is
\* given, event_classes when a category is given, attributes when only an
\* event_class is given and show_attributes is true, and no payload at all when
\* only an event_class is given and show_attributes is false.
C22_PayloadFollowsRequest ==
    (Browsed /\ res.ok) =>
        /\ Get(res.v.value, "summary").some
        /\ Get(res.v.value, "summary").v.t = "str"
        /\ Payloads =
               IF ~req.category.some /\ ~req.event_class.some THEN {"categories"}
               ELSE IF req.category.some THEN {"event_classes"}
               ELSE IF req.show_attributes THEN {"attributes"}
               ELSE {}

\* a class is browsed without its attributes: the response has the summary only
C22_Witness ==
    /\ Browsed
    /\ res.ok
    /\ ~req.category.some
    /\ req.event_class = SomeS("authentication")
    /\ ~req.show_attributes
    /\ Payloads = {}

(***************************************************************************)
(* Requests in flight together                                             *)
(***************************************************************************)
\* the responses the request of p can get when it runs alone on the store, with
\* the uuid and the clock value its handler drew
AloneResponses(p) ==
    CASE req[p].kind = "generate" ->
           {generate_ocsf_event(store, req[p].r, req[p].t, req[p].uuid, req[p].wraps)}
      [] req[p].kind = "browse" ->
           {browse_ocsf_schema(store, req[p].r, iters) :
               iters \in BrowseIters(store, req[p].r)}
      [] OTHER -> {validate_event(req[p].r)}

\* C23: whatever the interleaving of the requests in flight, the response of
\* each is a response it gets when run alone on the same store (the uuid and the
\* timestamp aside), and no step of a handler writes the store that the other
\* handlers read.
C23_ResponseAsIfAlone ==
    \A p \in Clients :
        /\ op[p] = "done" => res[p].out \in AloneResponses(p)
        /\ (op[p] \in {"loaded", "done"} /\ req[p].kind # "validate") =>
               res[p].schema = load_version(store, req[p].version)

\* both handlers hold a schema, loaded under different versions, and one of
\* them has answered
C23_Witness ==
    /\ op["a"] = "loaded"
    /\ op["b"] = "done"
    /\ req["a"].kind = "generate"
    /\ req["b"].kind = "generate"
    /\ req["a"].version # req["b"].version
    /\ res["a"].schema # res["b"].schema
    /\ res["b"].out.ok

(***************************************************************************)
(* The outcome of a tool call                                              *)
(***************************************************************************)
ToolCalled ==
    op \in {"tool_browse", "tool_generate", "tool_validate", "tool_map",
            "tool_list_versions", "tool_newest_version"}

\* the error code of the operation
OwnCode ==
    CASE op = "tool_browse" -> "browse_schema_error"
      [] op = "tool_generate" -> "generate_event_error"
      [] op = "tool_validate" -> "validate_event_error"
      [] op = "tool_map" -> "map_custom_error"
      [] op = "tool_list_versions" -> "list_versions_error"
      [] OTHER -> "get_newest_version_error"

\* C24: every request ends in exactly one outcome: a success that carries the
\* complete payload of the operation, or an error that carries the operation's
\* own code and a message; a failed GenerateEvent returns no partial event.
C24_OneOutcomeWithOwnCode ==
    ToolCalled =>
        /\ res.outcome \in {"success", "error"}
        /\ res.outcome = "success" =>
               /\ res.content.valid
               /\ res.code = ""
        /\ res.outcome = "error" =>
               /\ res.code = OwnCode
               /\ res.message # ""
               /\ ~res.content.valid

(***************************************************************************)
(* GenerateEvent: field sources, round trip, metadata, type_uid            *)
(***************************************************************************)
\* the requested class is in the schema that the request loads
ClassResolved ==
    /\ op = "generate"
    /\ RequestSchema.ok
    /\ req.event_class \in DOMAIN RequestSchema.v.classes

\* a provided source that starts with `{` and is refused by serde_json
SomeSourceMalformed ==
    \/ Malformed(req.required_fields)
    \/ req.optional_fields.some /\ Malformed(req.optional_fields.v)

\* C25: given a class that exists in the loaded schema, GenerateEvent fails
\* with InvalidFieldSource exactly when a provided source that starts with `{`
\* does not parse as a JSON object; a source that does not start with `{` is read
\* as a list of names and never makes the operation fail.
C25_FailsExactlyOnMalformedSource ==
    ClassResolved =>
        /\ (~res.ok /\ res.err = "InvalidFieldSource") <=> SomeSourceMalformed
        /\ ~SomeSourceMalformed => res.ok

\* C27: every document that GenerateEvent returns is accepted by ValidateEvent:
\* the report has is_valid = true, no error, and the event_class of the request.
C27_GeneratedIsValid ==
    op = "validate_generated" =>
        /\ res.ok
        /\ res.v.is_valid
        /\ res.v.errors = <<>>
        /\ res.v.event_class = SomeS(req.request.event_class)

\* C28: the metadata block of a generated event is determined by the requested
\* class alone: no key of a field source, a key `metadata` included, changes it,
\* and the document has exactly one member `metadata`.
C28_OneMetadataFromClassAlone ==
    Generated =>
        /\ res.event.metadata.version = "1.7.0-dev"
        /\ res.event.metadata.event_class = req.event_class
        /\ res.event.metadata.class_uid = RequestClass.uid
        /\ IsQuotient1000(RequestClass.uid, res.event.metadata.category_uid)
        /\ Cardinality({i \in DOMAIN res.json.value.o :
                           res.json.value.o[i].k = "metadata"}) = 1
        /\ Get(res.json.value, "metadata") = Some(MetadataValue(res.event.metadata))

\* C29: the metadata.version of every generated event is "1.7.0-dev", whatever
\* version the request names and whatever version the schema that resolved the
\* class declares; so it is in the metadata member the event writes into its
\* document.
C29_MetadataVersionFixed ==
    Generated =>
        /\ res.event.metadata.version = "1.7.0-dev"
        /\ res.json.value.o[1].k = "metadata"
        /\ Get(res.json.value.o[1].v, "version") = Some(Str("1.7.0-dev"))

\* the request names 1.0.0, the stored document declares 1.0.0
C29_Witness ==
    /\ Generated
    /\ req.version = SomeS("1.0.0")
    /\ "1.0.0" \in DOMAIN store
    /\ RequestSchema.v.version = "1.0.0"
    /\ res.event.metadata.version = "1.7.0-dev"

\* C30: for a bare type_uid in the required source the synthesized value is
\* classUid * 100 + 1 as an exact integer, for every class uid a schema document
\* can carry: the computation does not overflow, wrap or abort the request.
C30_TypeUidExact ==
    (/\ ClassResolved
     /\ "type_uid" \in RequiredBare
     /\ ~SomeSourceMalformed) =>
        /\ res.ok
        /\ "type_uid" \notin OptionalKeys =>
               /\ res.event.fields["type_uid"].t = "num"
               /\ IsTimes100Plus1(RequestClass.uid, res.event.fields["type_uid"].n, TRUE)

====
